---- MODULE Spec2Model ----
(***************************************************************************)
(* denied-sdk (python): the authorization gate (permission callback of the  *)
(* Claude Agent SDK integration, before_tool_callback of the Google ADK     *)
(* plugin), its retry loop and fail-mode policy, and the entity coercion    *)
(* of the Check Request schema.                                             *)
(*                                                                          *)
(* The Decision Client and the remote service are the environment of the    *)
(* gate: every awaited client.check either returns a CheckResponse or       *)
(* raises, and the model draws that outcome from small sets.                *)
(***************************************************************************)
EXTENDS Integers, Sequences, FiniteSets, TLC

VARIABLES
    gate,            \* which integration runs: "claude_sdk" or "google_adk"
    fail_mode,       \* effective_config.fail_mode / self.config.fail_mode
    retry_attempts,  \* effective_config.retry_attempts / self.config.retry_attempts
    pc,              \* position of the callback coroutine
    tool_name,       \* tool_name / tool.name of the invocation in progress
    attempt,         \* loop variable of _check_with_retry
    events,          \* what the invocation did so far: checks, raises, sleeps
    check_result,    \* value returned by _check_with_retry (NotReturned before)
    result,          \* what the callback handed to the host (NoResult before)
    coerce_in,       \* value handed to CheckRequest.coerce_subject/_resource
    coerce_out,      \* what the validator returned or raised
    client_class,    \* "DeniedClient" or "AsyncDeniedClient"
    is_closed,       \* self.client.is_closed of the httpx client
    scope,           \* where the caller stands relative to its with block
    posted,          \* the POSTs the service received, in order
    answered,        \* the service's answers to them, in order
    call,            \* the check / bulk_check call made on the client
    call_out,        \* what that call returned or raised
    body_exc,        \* the exception the body of the with block raised, or None
    propagated,      \* the exception that left the with block, or None
    name_in,         \* tool_name handed to extract_action
    input_in,        \* tool_input handed to extract_action
    action_out,      \* what extract_action returned, NotCalled before
    config_class,    \* which AuthorizationConfig class is constructed
    env_DENIED_URL,  \* the DENIED_URL environment variable, or None if unset
    config,          \* what AuthorizationConfig(...) returned or raised
    validated,       \* what config.validate() returned or raised
    effective_config, \* the configuration the constructed gate holds
    mapper,          \* which ContextMapper builds the request
    mapped_tool,     \* tool_name / tool.name handed to create_check_request
    objs,            \* the dict objects: the inputs and the mapper's own dicts
    before,          \* the input objects as they were when the call began
    check_request,   \* the CheckRequest create_check_request returned
    bodies,          \* the calls of create_check_request so far and their bodies
    host_config,     \* the caller's AuthorizationConfig object, which it may change
    callback,        \* what create_denied_permission_callback returned and closes over
    created_with,    \* the arguments of the factory as they were when it was called
    invocation,      \* what the last call of the callback built, did and returned
    flow_config,     \* the gate, fail_mode and retry_attempts the concurrent invocations share
    flows,           \* the concurrent invocations of one gate: each coroutine's own state
    ownership,       \* which gate was created and who constructed its client
    ops,             \* the operations on that client so far: checks and close calls
    phase            \* "init", "running" or "stopped": the life of the host

gate_vars == <<gate, fail_mode, retry_attempts, pc, tool_name, attempt, events,
               check_result, result>>
coerce_vars == <<coerce_in, coerce_out>>
action_vars == <<name_in, input_in, action_out>>
config_vars == <<config_class, env_DENIED_URL, config, validated,
                 effective_config>>
mapper_vars == <<mapper, mapped_tool, objs, before, check_request, bodies>>
client_vars == <<client_class, is_closed, scope, posted, answered, call,
                 call_out, body_exc, propagated>>
vars == <<gate, fail_mode, retry_attempts, pc, tool_name, attempt, events,
          check_result, result, coerce_in, coerce_out,
          client_class, is_closed, scope, posted, answered, call, call_out,
          body_exc, propagated, name_in, input_in, action_out,
          config_class, env_DENIED_URL, config, validated, effective_config,
          mapper, mapped_tool, objs, before, check_request, bodies,
          host_config, callback, created_with, invocation,
          flow_config, flows,
          ownership, ops, phase>>

factory_vars == <<host_config, callback, created_with, invocation>>

flow_vars == <<flow_config, flows>>

owner_vars == <<ownership, ops, phase>>

\* what the actions of one part leave alone: the variables of the other parts
gate_frame == <<coerce_vars, client_vars, action_vars, config_vars, mapper_vars,
    factory_vars,
    flow_vars,
    owner_vars>>
coerce_frame == <<gate_vars, client_vars, action_vars, config_vars, mapper_vars,
    factory_vars,
    flow_vars,
    owner_vars>>
client_frame == <<gate_vars, coerce_vars, action_vars, config_vars, mapper_vars,
    factory_vars,
    flow_vars,
    owner_vars>>
action_frame == <<gate_vars, coerce_vars, client_vars, config_vars, mapper_vars,
    factory_vars,
    flow_vars,
    owner_vars>>
config_frame == <<gate_vars, coerce_vars, client_vars, action_vars, mapper_vars,
    factory_vars,
    flow_vars,
    owner_vars>>
mapper_frame == <<gate_vars, coerce_vars, client_vars, action_vars, config_vars,
    factory_vars,
    flow_vars,
    owner_vars>>
factory_frame == <<gate_vars, coerce_vars, client_vars, action_vars,
    config_vars, mapper_vars,
    flow_vars,
    owner_vars>>
flow_frame == <<gate_vars, coerce_vars, client_vars, action_vars,
    config_vars, mapper_vars, factory_vars,
    owner_vars>>
owner_frame == <<gate_vars, coerce_vars, client_vars, action_vars,
    config_vars, mapper_vars, factory_vars, flow_vars>>

-----------------------------------------------------------------------------
(* Bounds of the model *)

\* largest retry_attempts a configuration holds
MaxRetry == 3

\* longest entity string handed to the coercion validators
MaxLen == 7

\* most requests one mapper builds
MaxBuilds == 3

\* most invocations of one gate that run at the same time
MaxFlows == 2

\* most operations on the client of one gate before the host stops
MaxOps == 5

-----------------------------------------------------------------------------
(* Values *)

\* Python's None where a string is expected
None == "<None>"

Gates == {"claude_sdk", "google_adk"}
FailModes == {"closed", "open"}
Tools == {"Write", "Bash"}

\* message of the denial on service unavailability
UnavailableMessage == "Authorization service unavailable (fail-closed mode)"

\* message of a denial whose response carries no reason
GenericDenied == "Authorization denied"

\* reasons a service puts into a response ("" is a supplied but empty string)
Reasons == {"Insufficient permissions", ""}

\* CheckResponseContext: reason (rules is never read by a gate)
CheckResponseContext == [reason : Reasons \cup {None}]

\* CheckResponse of the Authzen schema: decision, optional context
CheckResponse ==
    [decision : BOOLEAN, has_context : {FALSE}]
    \cup [decision : BOOLEAN, has_context : {TRUE}, context : CheckResponseContext]

\* CheckResponse read by the ADK plugin: allowed, optional reason
PluginCheckResponse == [allowed : BOOLEAN, reason : Reasons \cup {None}]

\* the responses the client of a gate can return
ResponsesOf(g) == IF g = "claude_sdk" THEN CheckResponse ELSE PluginCheckResponse

\* exceptions client.check raises: transport and service errors, and the
\* ValueError of a malformed entity or body
TransportErrors == {"httpx.TimeoutException", "httpx.HTTPStatusError"}
FormatErrors == {"ValueError"}
Exceptions == TransportErrors \cup FormatErrors

\* _check_with_retry has not returned yet / returned None
NotReturned == [returned |-> FALSE]
ReturnedNone == [returned |-> TRUE, none |-> TRUE]
Returned(resp) == [returned |-> TRUE, none |-> FALSE, response |-> resp]

\* the callback has handed nothing to the host yet
NoResult == [behavior |-> "pending"]

\* PermissionResultAllow() / None returned by before_tool_callback
PermissionResultAllow == [behavior |-> "allow"]

\* PermissionResultDeny(message=...) / the {"error": ..., "denied": True} dict
PermissionResultDeny(message) == [behavior |-> "deny", message |-> message]

\* an exception leaving the callback
Raised(exc) == [behavior |-> "raise", exception |-> exc]

-----------------------------------------------------------------------------
(* The gate: claude_sdk/callback.py and google_adk/plugin.py *)

\* base of the back-off in milliseconds: (2**attempt) * 0.1 seconds
BaseBackoffMs == 100

\* the last attempt taken one too early
is_final_attempt_early(a, retries) == a + 1 = retries

\* callback.py: is_final_attempt = attempt == config.retry_attempts
is_final_attempt(a, retries) == a = retries

\* plugin.py: is_final_attempt = attempt == self.config.retry_attempts
plugin_is_final_attempt(a, retries) == a = retries

\* a back-off that grows by a fixed step instead of doubling
backoff_seconds_linear(a) == (a + 1) * BaseBackoffMs

\* callback.py: backoff_seconds = (2**attempt) * 0.1, in milliseconds
backoff_seconds(a) == (2 ^ a) * BaseBackoffMs

\* plugin.py: backoff_seconds = (2**attempt) * 0.1, in milliseconds
plugin_backoff_seconds(a) == (2 ^ a) * BaseBackoffMs

\* for attempt in range(config.retry_attempts + 1): a is a value of the loop
in_range(a, retries) == a < retries + 1

\* plugin.py: _create_denial_response(reason)
_create_denial_response(reason) ==
    PermissionResultDeny(
        IF reason \in {None, ""}
        THEN GenericDenied
        ELSE "Authorization denied: " \o reason)

\* unavailability denied whatever fail_mode says
denied_permission_callback_always_deny(mode, r) ==
    IF r.none
    THEN PermissionResultDeny(UnavailableMessage)
    ELSE IF ~r.response.decision
         THEN IF ~r.response.has_context
              THEN Raised("AttributeError")
              ELSE PermissionResultDeny(
                       IF r.response.context.reason \in {None, ""}
                       THEN GenericDenied
                       ELSE r.response.context.reason)
         ELSE PermissionResultAllow

\* fail_mode "open" consulted for a denying response as well
denied_permission_callback_open_overrides(mode, r) ==
    IF r.none \/ (~r.response.decision /\ mode = "open")
    THEN IF mode = "closed"
         THEN PermissionResultDeny(UnavailableMessage)
         ELSE PermissionResultAllow
    ELSE IF ~r.response.decision
         THEN IF ~r.response.has_context
              THEN Raised("AttributeError")
              ELSE PermissionResultDeny(
                       IF r.response.context.reason \in {None, ""}
                       THEN GenericDenied
                       ELSE r.response.context.reason)
         ELSE PermissionResultAllow

\* callback.py, denied_permission_callback once _check_with_retry returned r:
\* None is resolved by fail_mode; a response with a false decision is denied
\* with check_result.context.reason or "Authorization denied", and reading
\* .reason of a context that is None raises AttributeError
denied_permission_callback(mode, r) ==
    IF r.none
    THEN IF mode = "closed"
         THEN PermissionResultDeny(UnavailableMessage)
         ELSE PermissionResultAllow
    ELSE IF ~r.response.decision
         THEN IF ~r.response.has_context
              THEN Raised("AttributeError")
              ELSE PermissionResultDeny(
                       IF r.response.context.reason \in {None, ""}
                       THEN GenericDenied
                       ELSE r.response.context.reason)
         ELSE PermissionResultAllow

\* plugin.py, before_tool_callback once _check_with_retry returned r
before_tool_callback(mode, r) ==
    IF r.none
    THEN IF mode = "closed"
         THEN _create_denial_response(UnavailableMessage)
         ELSE PermissionResultAllow
    ELSE IF ~r.response.allowed
         THEN _create_denial_response(r.response.reason)
         ELSE PermissionResultAllow

\* the gate in use resolves what its _check_with_retry returned
GateResult(g, mode, r) ==
    IF g = "claude_sdk"
    THEN denied_permission_callback(mode, r)
    ELSE before_tool_callback(mode, r)

\* is_final_attempt as the gate in use computes it
FinalAttempt(g, a, retries) ==
    IF g = "claude_sdk"
    THEN is_final_attempt(a, retries)
    ELSE plugin_is_final_attempt(a, retries)

\* backoff_seconds as the gate in use computes it
Backoff(g, a) ==
    IF g = "claude_sdk" THEN backoff_seconds(a) ELSE plugin_backoff_seconds(a)

\* what an invocation does, in order: client.check called for attempt a,
\* the call raising or returning, asyncio.sleep(ms) awaited
CheckEvent(a, t) == [ev |-> "check", attempt |-> a, tool_name |-> t]
RaiseEvent(a, exc) == [ev |-> "raise", attempt |-> a, exception |-> exc]
ReturnEvent(a) == [ev |-> "return", attempt |-> a]
SleepEvent(a, ms) == [ev |-> "sleep", attempt |-> a, ms |-> ms]

\* _check_with_retry returns r: the callback resolves it and returns
Finish(r) ==
    /\ check_result' = r
    /\ result' = GateResult(gate, fail_mode, r)
    /\ pc' = "done"

\* the host calls the gate for tool t: the request is built and the loop
\* enters its first iteration, awaiting client.check
Invoke(t) ==
    /\ pc = "idle"
    /\ tool_name' = t
    /\ attempt' = 0
    /\ IF in_range(0, retry_attempts)
       THEN /\ events' = <<CheckEvent(0, t)>>
            /\ pc' = "checking"
            /\ UNCHANGED <<check_result, result>>
       ELSE /\ events' = <<>>
            /\ Finish(ReturnedNone)
    /\ UNCHANGED <<gate, fail_mode, retry_attempts, gate_frame>>

\* the awaited client.check returns a response
CheckReturns(resp) ==
    /\ pc = "checking"
    /\ resp \in ResponsesOf(gate)
    /\ events' = Append(events, ReturnEvent(attempt))
    /\ Finish(Returned(resp))
    /\ UNCHANGED <<gate, fail_mode, retry_attempts, tool_name, attempt, gate_frame>>

\* the awaited client.check raises: except Exception takes every kind
CheckRaises(exc) ==
    /\ pc = "checking"
    /\ IF FinalAttempt(gate, attempt, retry_attempts)
       THEN /\ events' = Append(events, RaiseEvent(attempt, exc))
            /\ Finish(ReturnedNone)
       ELSE /\ events' = events \o <<RaiseEvent(attempt, exc),
                                     SleepEvent(attempt, Backoff(gate, attempt))>>
            /\ pc' = "sleeping"
            /\ UNCHANGED <<check_result, result>>
    /\ UNCHANGED <<gate, fail_mode, retry_attempts, tool_name, attempt, gate_frame>>

\* asyncio.sleep is over: the loop takes its next value, or ends
Wake ==
    /\ pc = "sleeping"
    /\ attempt' = attempt + 1
    /\ IF in_range(attempt + 1, retry_attempts)
       THEN /\ events' = Append(events, CheckEvent(attempt + 1, tool_name))
            /\ pc' = "checking"
            /\ UNCHANGED <<check_result, result>>
       ELSE /\ UNCHANGED events
            /\ Finish(ReturnedNone)
    /\ UNCHANGED <<gate, fail_mode, retry_attempts, tool_name, gate_frame>>

\* the host has taken the result; the callback can be called again
Return ==
    /\ pc = "done"
    /\ pc' = "idle"
    /\ attempt' = 0
    /\ events' = <<>>
    /\ check_result' = NotReturned
    /\ result' = NoResult
    /\ UNCHANGED <<gate, fail_mode, retry_attempts, tool_name, gate_frame>>

\* a gate that was constructed and not called
GateIdle ==
    /\ gate = "claude_sdk"
    /\ fail_mode = "closed"
    /\ retry_attempts = 0
    /\ pc = "idle"
    /\ tool_name = None
    /\ attempt = 0
    /\ events = <<>>
    /\ check_result = NotReturned
    /\ result = NoResult

\* no value was handed to a validator
CoerceIdle ==
    /\ coerce_in = <<>>
    /\ coerce_out = NoResult

\* no call was made on the client
NoCall == [op |-> "none", form |-> "none"]

\* a client that was constructed and not used
ClientIdle ==
    /\ client_class = "DeniedClient"
    /\ is_closed = FALSE
    /\ scope = "constructed"
    /\ posted = <<>>
    /\ answered = <<>>
    /\ call = NoCall
    /\ call_out = NoResult
    /\ body_exc = None
    /\ propagated = None

\* extract_action has not returned yet
NotCalled == "<not called>"

\* extract_action was not called
ActionIdle ==
    /\ name_in = <<>>
    /\ input_in = [is_none |-> TRUE]
    /\ action_out = NotCalled

\* no configuration was constructed
ConfigIdle ==
    /\ config_class = "claude_sdk"
    /\ env_DENIED_URL = None
    /\ config = NoResult
    /\ validated = NoResult
    /\ effective_config = NoResult

\* no mapper was handed anything
MapperIdle ==
    /\ mapper = "claude_sdk"
    /\ mapped_tool = <<>>
    /\ objs = <<>>
    /\ before = <<>>
    /\ check_request = NoResult
    /\ bodies = <<>>

\* no permission callback was created
FactoryIdle ==
    /\ host_config = NoResult
    /\ callback = NoResult
    /\ created_with = NoResult
    /\ invocation = NoResult

\* no concurrent invocations run
FlowIdle ==
    /\ flow_config = NoResult
    /\ flows = <<>>

\* no gate was created with a client
OwnerIdle ==
    /\ ownership = NoResult
    /\ ops = <<>>
    /\ phase = "init"

Init ==
    /\ gate \in Gates
    /\ fail_mode \in FailModes
    /\ retry_attempts \in 0..MaxRetry
    /\ pc = "idle"
    /\ tool_name = None
    /\ attempt = 0
    /\ events = <<>>
    /\ check_result = NotReturned
    /\ result = NoResult
    /\ CoerceIdle
    /\ ClientIdle
    /\ ActionIdle
    /\ ConfigIdle
    /\ MapperIdle
    /\ FactoryIdle
    /\ FlowIdle
    /\ OwnerIdle

Next ==
    \/ \E t \in Tools : Invoke(t)
    \/ \E resp \in CheckResponse \cup PluginCheckResponse : CheckReturns(resp)
    \/ \E exc \in Exceptions : CheckRaises(exc)
    \/ Wake
    \/ Return

Spec == Init /\ [][Next]_vars

\* an awaited client.check ends: it returns a response or raises
AttemptEnds ==
    \/ \E resp \in CheckResponse \cup PluginCheckResponse : CheckReturns(resp)
    \/ \E exc \in Exceptions : CheckRaises(exc)

\* the host assigns to retry_attempts of the configuration object the plugin
\* holds (self.config = config): the models do not validate assignment, so
\* the value is any integer
SetRetryAttempts(v) ==
    /\ gate = "google_adk"
    /\ pc = "idle"
    /\ v # retry_attempts
    /\ retry_attempts' = v
    /\ UNCHANGED <<gate, fail_mode, pc, tool_name, attempt, events,
                   check_result, result, gate_frame>>

NextUnvalidated ==
    \/ Next
    \/ \E v \in {-1} \cup 0..MaxRetry : SetRetryAttempts(v)

\* the gate with a configuration that is written after its construction
SpecUnvalidated == Init /\ [][NextUnvalidated]_vars

\* the event loop runs the coroutine on: every awaited attempt ends (the
\* client's timeout bounds it) and every asyncio.sleep is over in the end
SpecLive == Spec /\ WF_vars(AttemptEnds) /\ WF_vars(Wake)

-----------------------------------------------------------------------------
(* Entity coercion: schemas/check.py *)

\* strings are sequences of characters; these are enough to spell "type://id"
\* with slashes and further delimiters inside the id
Alphabet == {"a", ":", "/"}

Strings == UNION {[1..n -> Alphabet] : n \in 0..MaxLen}

\* the delimiter "://"
Delimiter == <<":", "/", "/">>

\* the indices at which "://" occurs in v
Occurrences(v) ==
    {i \in 1..Len(v) : i + 2 <= Len(v) /\ SubSeq(v, i, i + 2) = Delimiter}

\* "://" in v
Contains(v) == Occurrences(v) # {}

\* Subject / Resource: type, id and the properties (empty by default)
Entity(class, type, id, properties) ==
    [class |-> class, type |-> type, id |-> id, properties |-> properties]

\* the mappings handed in as dict: with and without the required fields
Dicts ==
    {[type |-> <<"a">>, id |-> <<"a", "/", "a">>],
     [type |-> <<"a">>, id |-> <<"a">>, properties |-> {<<"role", "admin">>}],
     [type |-> <<"a">>],
     [id |-> <<"a">>]}

\* SubjectLike / ResourceLike: an entity, a dict or a string
Likes(class) ==
    {[kind |-> "entity", value |-> Entity(class, <<"a">>, <<"a">>, {})]}
    \cup [kind : {"dict"}, value : Dicts]
    \cup [kind : {"str"}, value : Strings]

\* a validator returned entity e / raised a ValueError asking for a format
Coerced(e) == [behavior |-> "return", entity |-> e]
ValueError(class, expected) ==
    [behavior |-> "raise", exception |-> "ValueError", class |-> class,
     expected |-> expected]

\* Subject.model_validate(v) of a dict: type and id are required fields
model_validate(class, v) ==
    IF {"type", "id"} \subseteq DOMAIN v
    THEN Coerced(Entity(class, v.type, v.id,
                        IF "properties" \in DOMAIN v THEN v.properties ELSE {}))
    ELSE ValueError(class, "Field required")

\* a split at the last delimiter instead of the first
split_at_last(v) ==
    LET i == CHOOSE j \in Occurrences(v) : \A k \in Occurrences(v) : k <= j
    IN  <<SubSeq(v, 1, i - 1), SubSeq(v, i + 3, Len(v))>>

\* v.split("://", 1) of a string that holds the delimiter
split(v) ==
    LET i == CHOOSE j \in Occurrences(v) : \A k \in Occurrences(v) : j <= k
    IN  <<SubSeq(v, 1, i - 1), SubSeq(v, i + 3, Len(v))>>

\* a subject validator that takes a string without delimiter as a bare id
coerce_subject_lenient(v) ==
    IF v.kind = "entity" THEN Coerced(v.value)
    ELSE IF v.kind = "dict" THEN model_validate("Subject", v.value)
    ELSE IF ~Contains(v.value) THEN Coerced(Entity("Subject", <<>>, v.value, {}))
    ELSE Coerced(Entity("Subject", split(v.value)[1], split(v.value)[2], {}))

\* CheckRequest.coerce_subject
coerce_subject(v) ==
    IF v.kind = "entity" THEN Coerced(v.value)
    ELSE IF v.kind = "dict" THEN model_validate("Subject", v.value)
    ELSE IF ~Contains(v.value) THEN ValueError("Subject", "type://id")
    ELSE Coerced(Entity("Subject", split(v.value)[1], split(v.value)[2], {}))

\* CheckRequest.coerce_resource
coerce_resource(v) ==
    IF v.kind = "entity" THEN Coerced(v.value)
    ELSE IF v.kind = "dict" THEN model_validate("Resource", v.value)
    ELSE IF ~Contains(v.value) THEN ValueError("Resource", "type://id")
    ELSE Coerced(Entity("Resource", split(v.value)[1], split(v.value)[2], {}))

\* CheckRequest(subject=v, ...) runs the subject validator on v
CoerceSubject ==
    /\ coerce_out = NoResult
    /\ coerce_in \in Likes("Subject")
    /\ coerce_out' = coerce_subject(coerce_in)
    /\ UNCHANGED <<coerce_in, coerce_frame>>

\* CheckRequest(resource=v, ...) runs the resource validator on v
CoerceResource ==
    /\ coerce_out = NoResult
    /\ coerce_in \in Likes("Resource")
    /\ coerce_out' = coerce_resource(coerce_in)
    /\ UNCHANGED <<coerce_in, coerce_frame>>

InitCoerce ==
    /\ GateIdle
    /\ ClientIdle
    /\ ActionIdle
    /\ ConfigIdle
    /\ MapperIdle
    /\ coerce_in \in Likes("Subject") \cup Likes("Resource")
    /\ coerce_out = NoResult
    /\ FactoryIdle
    /\ FlowIdle
    /\ OwnerIdle

NextCoerce == CoerceSubject \/ CoerceResource

SpecCoerce == InitCoerce /\ [][NextCoerce]_vars

-----------------------------------------------------------------------------
(* The Decision Client: client.py *)

\* largest batch handed to bulk_check
MaxBatch == 2

ClientClasses == {"DeniedClient", "AsyncDeniedClient"}

\* the strings a caller passes to check: "a://a" and "a:a"
UriStrings == {<<"a", ":", "/", "/", "a">>, <<"a", ":", "a">>}

\* the subjects and resources a caller passes to check
CheckLikes(class) ==
    {[kind |-> "entity", value |-> Entity(class, <<"a">>, <<"a">>, {})]}
    \cup [kind : {"dict"}, value : Dicts]
    \cup [kind : {"str"}, value : UriStrings]

\* the action names of the requests
ActionNames == {"read", "delete"}

\* pydantic's ValidationError (a ValueError) listing the failed fields
ValidationError(errors) ==
    [behavior |-> "raise", exception |-> "ValueError", errors |-> errors]

\* CheckRequest(subject=..., action=..., resource=...): the validators run on
\* every field and the errors of all of them are raised together
CheckRequest(subject, action, resource) ==
    LET s == coerce_subject(subject)
        r == coerce_resource(resource)
        errors == {e \in {s, r} : e.behavior = "raise"}
    IN  IF errors # {}
        THEN ValidationError(errors)
        ELSE [behavior |-> "return",
              request |-> [subject |-> s.entity, action |-> [name |-> action],
                           resource |-> r.entity]]

\* request.model_dump(): plain mappings, the classes are gone
model_dump(request) ==
    [subject |-> [type |-> request.subject.type, id |-> request.subject.id,
                  properties |-> request.subject.properties],
     action |-> [name |-> request.action.name, properties |-> None],
     resource |-> [type |-> request.resource.type, id |-> request.resource.id,
                   properties |-> request.resource.properties],
     context |-> None]

\* the CheckRequest objects a caller hands to bulk_check
CheckRequests ==
    {CheckRequest([kind |-> "str", value |-> <<"a", ":", "/", "/", "a">>], a,
                  [kind |-> "str", value |-> <<"a", ":", "/", "/", "a">>]).request :
        a \in ActionNames}

Batches == UNION {[1..n -> CheckRequests] : n \in 0..MaxBatch}

\* JSON bodies of one check response; the last one lacks the decision
ResponseBodies ==
    [decision : BOOLEAN]
    \cup [decision : {FALSE}, context : [reason : {"Insufficient permissions"}]]
    \cup {[context |-> [reason |-> "Insufficient permissions"]]}

\* CheckResponse.model_validate(body)
CheckResponse_model_validate(body) ==
    IF "decision" \notin DOMAIN body
    THEN ValidationError({"decision: Field required"})
    ELSE IF "context" \in DOMAIN body
    THEN [behavior |-> "return",
          response |-> [decision |-> body.decision, has_context |-> TRUE,
                        context |-> [reason |-> body.context.reason]]]
    ELSE [behavior |-> "return",
          response |-> [decision |-> body.decision, has_context |-> FALSE]]

\* what the service answers to one POST: a status and a body; the body of a
\* successful bulk answer is an array with one response per request received,
\* in the order received (the wire protocol)
ErrorBodies == {[error |-> "Not found"], [error |-> "Internal server error"]}
ErrorStatuses == {400, 404, 500}
Answers(path, json) ==
    [status : ErrorStatuses, body : ErrorBodies]
    \cup [status : {200},
          body : IF path = "/pdp/check" THEN ResponseBodies
                 ELSE [1..Len(json) -> ResponseBodies]]

\* response.is_success: a 2xx status
is_success(status) == 200 <= status /\ status <= 299

\* the re-raised httpx.HTTPStatusError: f"{e}\nResponse: {e.response.text}"
HTTPStatusError(response) ==
    [behavior |-> "raise", exception |-> "httpx.HTTPStatusError",
     message |-> [error |-> response.status, Response |-> response.body]]

\* a handler that lets client errors through and raises on 5xx only
_handle_response_5xx_only(response) ==
    IF response.status < 500 THEN [behavior |-> "return"]
    ELSE HTTPStatusError(response)

\* BaseDeniedClient._handle_response: raise_for_status, re-raised with the body
_handle_response(response) ==
    IF is_success(response.status) THEN [behavior |-> "return"]
    ELSE HTTPStatusError(response)

\* json=[request.model_dump() for request in check_requests]
bulk_json(check_requests) ==
    [i \in 1..Len(check_requests) |-> model_dump(check_requests[i])]

\* the responses of a bulk answer, last first
bulk_responses_reversed(body) ==
    [i \in 1..Len(body) |-> CheckResponse_model_validate(body[Len(body) + 1 - i])]

\* [CheckResponse.model_validate(result) for result in response.json()]
bulk_responses(body) ==
    [i \in 1..Len(body) |-> CheckResponse_model_validate(body[i])]

\* a call returned the list of responses
ReturnedList(responses) == [behavior |-> "return", responses |-> responses]

\* the value of the list comprehension: the first validation error leaves
\* it, otherwise the list of the responses
comprehension(results) ==
    IF \E i \in 1..Len(results) : results[i].behavior = "raise"
    THEN results[CHOOSE i \in 1..Len(results) :
                    /\ results[i].behavior = "raise"
                    /\ \A j \in 1..(i - 1) : results[j].behavior # "raise"]
    ELSE ReturnedList([i \in 1..Len(results) |-> results[i].response])

\* self.client.post(path, json=json) reaches the service, which answers
Post(path, json, answer) ==
    /\ posted' = Append(posted, [path |-> path, json |-> json])
    /\ answered' = Append(answered, answer)

\* the types and ids a caller passes to check
EntityTypes == {<<"a">>}
EntityIds == {<<"a">>, <<"a", "/", "a">>}

\* BaseDeniedClient._build_check_request, properties and context left out
_build_check_request(subject_type, subject_id, resource_type, resource_id, action) ==
    [subject |-> Entity("Subject", subject_type, subject_id, {}),
     action |-> [name |-> action],
     resource |-> Entity("Resource", resource_type, resource_id, {})]

\* the tail of check: post the request, handle the status, validate the body
SendCheck(request) ==
    \E answer \in Answers("/pdp/check", model_dump(request)) :
        /\ Post("/pdp/check", model_dump(request), answer)
        /\ call_out' =
              IF _handle_response(answer).behavior = "raise"
              THEN _handle_response(answer)
              ELSE CheckResponse_model_validate(answer.body)

\* client.check(subject_type, subject_id, resource_type, resource_id, action=...)
Check(subject_type, subject_id, resource_type, resource_id, action) ==
    /\ ~is_closed
    /\ scope \in {"constructed", "body"}
    /\ call = NoCall
    /\ call' = [op |-> "check", form |-> "type and id",
                request |-> _build_check_request(subject_type, subject_id,
                                                 resource_type, resource_id,
                                                 action)]
    /\ SendCheck(_build_check_request(subject_type, subject_id, resource_type,
                                      resource_id, action))
    /\ UNCHANGED <<client_class, is_closed, scope, body_exc, propagated,
                   client_frame>>

\* client.check(subject=..., action=..., resource=...): the request is built
\* from the values as given, then sent as above
CheckLike(subject, action, resource) ==
    /\ ~is_closed
    /\ scope \in {"constructed", "body"}
    /\ call = NoCall
    /\ call' = [op |-> "check", form |-> "like", subject |-> subject,
                action |-> action, resource |-> resource]
    /\ LET built == CheckRequest(subject, action, resource)
       IN  IF built.behavior = "raise"
           THEN /\ call_out' = built
                /\ UNCHANGED <<posted, answered>>
           ELSE SendCheck(built.request)
    /\ UNCHANGED <<client_class, is_closed, scope, body_exc, propagated,
                   client_frame>>

\* client.bulk_check(check_requests)
BulkCheck(check_requests) ==
    /\ ~is_closed
    /\ scope \in {"constructed", "body"}
    /\ call = NoCall
    /\ call' = [op |-> "bulk_check", form |-> "requests",
                check_requests |-> check_requests]
    /\ \E answer \in Answers("/pdp/check/bulk", bulk_json(check_requests)) :
        /\ Post("/pdp/check/bulk", bulk_json(check_requests), answer)
        /\ call_out' =
              IF _handle_response(answer).behavior = "raise"
              THEN _handle_response(answer)
              ELSE comprehension(bulk_responses(answer.body))
    /\ UNCHANGED <<client_class, is_closed, scope, body_exc, propagated,
                   client_frame>>

\* what the body of a with block raises besides the exception of its call
BodyExceptions == {"ValueError"}

\* an exit that closes the pool only when the body completed normally
__exit__on_success_only(exc) == [closes |-> exc = None, returns |-> None]

\* DeniedClient.__exit__ / AsyncDeniedClient.__aexit__: close(), return None
__exit__(exc) == [closes |-> TRUE, returns |-> None]

\* the with statement swallows the exception only on a true return value
suppressed(returns) == returns # None

\* `with client:` / `async with client:` calls __enter__, which returns self
Enter ==
    /\ scope = "constructed"
    /\ ~is_closed
    /\ scope' = "body"
    /\ UNCHANGED <<client_class, is_closed, posted, answered, call, call_out,
                   body_exc, propagated, client_frame>>

\* the body of the with block ends, normally (None) or with exception exc,
\* and the with statement calls __exit__ with it
Exit(exc) ==
    /\ scope = "body"
    /\ exc \in {None} \cup BodyExceptions
               \cup (IF call_out.behavior = "raise" THEN {call_out.exception}
                     ELSE {})
    /\ body_exc' = exc
    /\ is_closed' = (is_closed \/ __exit__(exc).closes)
    /\ propagated' = IF suppressed(__exit__(exc).returns) THEN None ELSE exc
    /\ scope' = "left"
    /\ UNCHANGED <<client_class, posted, answered, call, call_out, client_frame>>

\* client.close() called by hand, outside a with block
Close ==
    /\ scope = "constructed"
    /\ ~is_closed
    /\ is_closed' = TRUE
    /\ UNCHANGED <<client_class, scope, posted, answered, call, call_out,
                   body_exc, propagated, client_frame>>

InitClient ==
    /\ GateIdle
    /\ CoerceIdle
    /\ ActionIdle
    /\ ConfigIdle
    /\ MapperIdle
    /\ client_class \in ClientClasses
    /\ is_closed = FALSE
    /\ scope = "constructed"
    /\ posted = <<>>
    /\ answered = <<>>
    /\ call = NoCall
    /\ call_out = NoResult
    /\ body_exc = None
    /\ propagated = None
    /\ FactoryIdle
    /\ FlowIdle
    /\ OwnerIdle

NextClient ==
    \/ Enter
    \/ \E subject_type \in EntityTypes, subject_id \in EntityIds,
          resource_type \in EntityTypes, resource_id \in EntityIds,
          action \in ActionNames :
            Check(subject_type, subject_id, resource_type, resource_id, action)
    \/ \E subject \in CheckLikes("Subject"), action \in ActionNames,
          resource \in CheckLikes("Resource") :
            CheckLike(subject, action, resource)
    \/ \E check_requests \in Batches : BulkCheck(check_requests)
    \/ \E exc \in {None} \cup BodyExceptions \cup Exceptions : Exit(exc)
    \/ Close

SpecClient == InitClient /\ [][NextClient]_vars

-----------------------------------------------------------------------------
(* Action inference: integrations/shared/action_patterns.py *)

\* longest command, in lexemes, drawn from the vocabulary
MaxCmdLen == 4

\* most segments of a tool name drawn from the vocabulary
MaxSegs == 3

\* the five canonical verbs
Verbs == {"read", "create", "update", "delete", "execute"}

\* A command is the sequence of its lexemes: a word is a maximal run of
\* \w characters, every other character is a lexeme of its own.
Whitespace == {" "}
Punctuation == {">", "|", "-", ".", "&", "'", "/", ":"}
IsWord(t) == t \notin Whitespace \cup Punctuation

\* str.lower() / re.IGNORECASE on the words and segments of the vocabulary
lower(w) ==
    CASE w = "RM" -> "rm"
      [] w = "Bash" -> "bash"
      [] w = "BASH" -> "bash"
      [] w = "Read" -> "read"
      [] w = "Write" -> "write"
      [] w = "Task" -> "task"
      [] w = "Delete" -> "delete"
      [] w = "O" -> "o"
      [] OTHER -> w

\* \b(w1|w2|...)\b : some word of the command is one of the words
HasWord(command, words) ==
    \E i \in 1..Len(command) : IsWord(command[i]) /\ lower(command[i]) \in words

\* \bword\s+-o\b : the word, whitespace, then the option -o as a whole word
HasOption(command, word, option) ==
    \E i \in 1..Len(command), j \in 1..Len(command) :
        /\ lower(command[i]) = word
        /\ i + 1 < j
        /\ \A k \in (i + 1)..(j - 1) : command[k] \in Whitespace
        /\ command[j] = "-"
        /\ j + 1 <= Len(command)
        /\ lower(command[j + 1]) = option

\* [^|]>\s*\S|[^|]>>\s*\S : a ">" after a character other than "|", then
\* optional whitespace and a non-whitespace character
Redirects(command) ==
    \E i \in 2..Len(command), j \in 1..Len(command) :
        /\ command[i] = ">"
        /\ command[i - 1] # "|"
        /\ i < j
        /\ \A k \in (i + 1)..(j - 1) : command[k] \in Whitespace
        /\ command[j] \notin Whitespace

\* \becho(?!\s.*>)\b : the word echo, not followed by whitespace and a later ">"
PlainEcho(command) ==
    \E i \in 1..Len(command) :
        /\ lower(command[i]) = "echo"
        /\ ~(/\ i + 1 <= Len(command)
             /\ command[i + 1] \in Whitespace
             /\ \E k \in (i + 2)..Len(command) : command[k] = ">")

WriteCommands == {"cp", "mv", "mkdir", "touch", "rsync", "scp"}
TeeCommands == {"tee", "dd"}
DeleteCommands == {"rm", "rmdir", "unlink"}
PermissionCommands == {"chmod", "chown", "chgrp"}
ReadCommands ==
    {"cat", "head", "tail", "less", "more", "grep", "find", "ls", "pwd",
     "whoami", "file", "stat", "wc", "diff", "which", "type", "env",
     "printenv", "date", "uname"}

\* pattern.search(command) for the patterns of _BASH_ACTION_PATTERNS
search(pattern, command) ==
    CASE pattern = "redirection" -> Redirects(command)
      [] pattern = "write" ->
            \/ HasWord(command, WriteCommands)
            \/ HasOption(command, "wget", "o")
            \/ HasOption(command, "curl", "o")
      [] pattern = "tee" -> HasWord(command, TeeCommands)
      [] pattern = "delete" -> HasWord(command, DeleteCommands)
      [] pattern = "sed -i" -> HasOption(command, "sed", "i")
      [] pattern = "chmod" -> HasWord(command, PermissionCommands)
      [] pattern = "read" ->
            HasWord(command, ReadCommands) \/ PlainEcho(command)

\* the same patterns with the read commands moved to the front
_BASH_ACTION_PATTERNS_read_first ==
    <<[pattern |-> "read", action |-> "read"],
      [pattern |-> "redirection", action |-> "create"],
      [pattern |-> "write", action |-> "create"],
      [pattern |-> "tee", action |-> "create"],
      [pattern |-> "delete", action |-> "delete"],
      [pattern |-> "sed -i", action |-> "update"],
      [pattern |-> "chmod", action |-> "update"]>>

\* _BASH_ACTION_PATTERNS, in the order of the list
_BASH_ACTION_PATTERNS ==
    <<[pattern |-> "redirection", action |-> "create"],
      [pattern |-> "write", action |-> "create"],
      [pattern |-> "tee", action |-> "create"],
      [pattern |-> "delete", action |-> "delete"],
      [pattern |-> "sed -i", action |-> "update"],
      [pattern |-> "chmod", action |-> "update"],
      [pattern |-> "read", action |-> "read"]>>

\* _extract_bash_action: the action of the first pattern that matches
_extract_bash_action(command) ==
    LET hits == {i \in 1..Len(_BASH_ACTION_PATTERNS) : search(_BASH_ACTION_PATTERNS[i].pattern, command)}
    IN  IF hits = {} THEN "execute"
        ELSE _BASH_ACTION_PATTERNS[CHOOSE i \in hits : \A j \in hits : i <= j].action

\* A tool name is the sequence of its segments, the runs between "_".
\* ^(A|B)$ : the whole name is one of the identifiers
Exact(identifiers) == [kind |-> "exact", stems |-> identifiers]

\* (^|_)(a|b)(_|$) : some segment is one of the stems
Stem(stems) == [kind |-> "stem", stems |-> stems]

\* (^|_)(share|add_.*_member)(_|$) : a stem, or add_ ... _member
StemOrAddMember(stems) == [kind |-> "stem or add member", stems |-> stems]

\* pattern.search(tool_name) for the patterns of _ACTION_PATTERNS
search_name(pattern, name) ==
    CASE pattern.kind = "exact" ->
            Len(name) = 1 /\ lower(name[1]) \in pattern.stems
      [] pattern.kind = "stem" ->
            \E i \in 1..Len(name) : lower(name[i]) \in pattern.stems
      [] pattern.kind = "stem or add member" ->
            \/ \E i \in 1..Len(name) : lower(name[i]) \in pattern.stems
            \/ \E i \in 1..Len(name), j \in 1..Len(name) :
                  /\ i + 2 <= j
                  /\ lower(name[i]) = "add"
                  /\ lower(name[j]) = "member"

ReadIdentifiers ==
    {"read", "glob", "grep", "webfetch", "websearch", "listmcpresourcestool",
     "readmcpresourcetool"}
CreateIdentifiers == {"write"}
UpdateIdentifiers == {"edit", "multiedit", "notebookedit"}
ExecuteIdentifiers == {"task", "todowrite", "killshell"}
ExecuteStems == {"execute", "run", "call", "invoke", "batch"}
ShareStems == {"share"}
MergeStems == {"merge", "fork", "copy", "move"}
LockStems == {"lock", "unlock", "restore"}
DeleteStems == {"delete", "remove", "drop", "unshare"}
UpdateStems ==
    {"update", "modify", "edit", "change", "set", "patch", "rename", "mark"}
CreateStems ==
    {"write", "create", "add", "insert", "post", "save", "send", "upload"}
ReadStems ==
    {"read", "get", "fetch", "load", "list", "search", "query", "retrieve"}

\* the same patterns with the read stems checked before the delete stems
_ACTION_PATTERNS_read_early ==
    <<[pattern |-> Exact(ReadIdentifiers), action |-> "read"],
      [pattern |-> Exact(CreateIdentifiers), action |-> "create"],
      [pattern |-> Exact(UpdateIdentifiers), action |-> "update"],
      [pattern |-> Exact(ExecuteIdentifiers), action |-> "execute"],
      [pattern |-> Stem(ExecuteStems), action |-> "execute"],
      [pattern |-> StemOrAddMember(ShareStems), action |-> "update"],
      [pattern |-> Stem(MergeStems), action |-> "update"],
      [pattern |-> Stem(LockStems), action |-> "update"],
      [pattern |-> Stem(ReadStems), action |-> "read"],
      [pattern |-> Stem(DeleteStems), action |-> "delete"],
      [pattern |-> Stem(UpdateStems), action |-> "update"],
      [pattern |-> Stem(CreateStems), action |-> "create"]>>

\* _ACTION_PATTERNS, in the order of the list
_ACTION_PATTERNS ==
    <<[pattern |-> Exact(ReadIdentifiers), action |-> "read"],
      [pattern |-> Exact(CreateIdentifiers), action |-> "create"],
      [pattern |-> Exact(UpdateIdentifiers), action |-> "update"],
      [pattern |-> Exact(ExecuteIdentifiers), action |-> "execute"],
      [pattern |-> Stem(ExecuteStems), action |-> "execute"],
      [pattern |-> StemOrAddMember(ShareStems), action |-> "update"],
      [pattern |-> Stem(MergeStems), action |-> "update"],
      [pattern |-> Stem(LockStems), action |-> "update"],
      [pattern |-> Stem(DeleteStems), action |-> "delete"],
      [pattern |-> Stem(UpdateStems), action |-> "update"],
      [pattern |-> Stem(CreateStems), action |-> "create"],
      [pattern |-> Stem(ReadStems), action |-> "read"]>>

\* tool_input: None, or a dict that may hold a command
NoneInput == [is_none |-> TRUE]
Input(dict) == [is_none |-> FALSE, dict |-> dict]
EmptyDict == [key \in {} |-> <<>>]

\* bool(tool_input): None and the empty dict are false
truthy(tool_input) == ~tool_input.is_none /\ DOMAIN tool_input.dict # {}

\* tool_input.get("command", "")
get_command(tool_input) ==
    IF "command" \in DOMAIN tool_input.dict THEN tool_input.dict.command
    ELSE <<>>

\* the loop over _ACTION_PATTERNS without the final return: None falls out
match_tool_name_no_default(name) ==
    LET hits == {i \in 1..Len(_ACTION_PATTERNS) :
                    search_name(_ACTION_PATTERNS[i].pattern, name)}
    IN  IF hits = {} THEN None
        ELSE _ACTION_PATTERNS[CHOOSE i \in hits : \A j \in hits : i <= j].action

\* the loop over _ACTION_PATTERNS and the final return "execute"
match_tool_name(name) ==
    LET hits == {i \in 1..Len(_ACTION_PATTERNS) :
                    search_name(_ACTION_PATTERNS[i].pattern, name)}
    IN  IF hits = {} THEN "execute"
        ELSE _ACTION_PATTERNS[CHOOSE i \in hits : \A j \in hits : i <= j].action

\* tool_name.lower() == "bash"
is_bash(name) == Len(name) = 1 /\ lower(name[1]) = "bash"

\* extract_action
extract_action(name, tool_input) ==
    IF is_bash(name) /\ truthy(tool_input) /\ get_command(tool_input) # <<>>
    THEN _extract_bash_action(get_command(tool_input))
    ELSE match_tool_name(name)

\* the lexemes of the commands that are enumerated
CommandTokens ==
    {"ls", "rm", "cp", "sed", "i", "echo", "RM", " ", ">", "|", "-"}

\* no two words are adjacent: they would be one word
WellFormed(command) ==
    \A i \in 1..(Len(command) - 1) :
        ~(IsWord(command[i]) /\ IsWord(command[i + 1]))

\* "ls -la", "echo hi > f.txt", "rm f.txt", "npm install", and commands of
\* the classes the vocabulary does not reach
LsLa == <<"ls", " ", "-", "la">>
EchoHiToFile == <<"echo", " ", "hi", " ", ">", " ", "f", ".", "txt">>
RmFile == <<"rm", " ", "f", ".", "txt">>
NpmInstall == <<"npm", " ", "install">>
ExampleCommands ==
    {LsLa, EchoHiToFile, RmFile, NpmInstall,
     <<"echo", " ", "hello">>,
     <<"tee", " ", "output", ".", "txt">>,
     <<"wget", " ", "-", "O", " ", "f">>,
     <<"curl", " ", " ", "-", "o", " ", "f">>,
     <<"curl", " ", "-", "s", " ", "x">>,
     <<"chmod", " ", "755", " ", "script", ".", "sh">>,
     <<"make", " ", "2", ">", "&", "1">>,
     <<"cat", " ", "f", " ", "|", " ", "grep", " ", "x">>}

Commands ==
    {command \in UNION {[1..n -> CommandTokens] : n \in 1..MaxCmdLen} :
        WellFormed(command)}
    \cup ExampleCommands

\* the segments of the tool names that are enumerated
Segments ==
    {"delete", "create", "get", "run", "share", "set", "add", "member", "x",
     "unshare", "Delete", "Read", "Task"}

ToolNames == UNION {[1..n -> Segments] : n \in 1..MaxSegs}

\* the shell tool, in the spellings the comparison accepts
BashNames == {<<"Bash">>, <<"bash">>, <<"BASH">>}

\* payloads without a command to analyse, and one with a command
PayloadsWithoutCommand ==
    {NoneInput, Input(EmptyDict), Input([command |-> <<>>]),
     Input([timeout |-> <<"5">>])}

\* extract_action(tool_name, tool_input) is called
ExtractAction ==
    /\ action_out = NotCalled
    /\ action_out' = extract_action(name_in, input_in)
    /\ UNCHANGED <<name_in, input_in, action_frame>>

InitAction ==
    /\ GateIdle
    /\ CoerceIdle
    /\ ClientIdle
    /\ ConfigIdle
    /\ MapperIdle
    /\ action_out = NotCalled
    /\ \/ /\ name_in = <<"Bash">>
          /\ input_in \in {Input([command |-> c]) : c \in Commands}
       \/ /\ name_in \in BashNames
          /\ input_in \in PayloadsWithoutCommand
                          \cup {Input([command |-> c]) : c \in ExampleCommands}
       \/ /\ name_in \in ToolNames
          /\ input_in \in {NoneInput, Input(EmptyDict),
                           Input([command |-> RmFile])}
    /\ FactoryIdle
    /\ FlowIdle
    /\ OwnerIdle

NextAction == ExtractAction

SpecAction == InitAction /\ [][NextAction]_vars

-----------------------------------------------------------------------------
(* Authorization configuration: the config.py of the integrations *)

\* the pydantic models of claude_sdk and google_adk, the dataclass of adk
ConfigClasses == {"claude_sdk", "google_adk", "adk"}
PydanticClasses == {"claude_sdk", "google_adk"}

\* os.getenv("DENIED_URL", "http://localhost:8421")
DefaultUrl == "http://localhost:8421"
EnvUrls == {None, "", "https://env.denied.dev"}
getenv_DENIED_URL(env) == IF env = None THEN DefaultUrl ELSE env

\* the arguments a caller gives to AuthorizationConfig(...)
UrlArguments == {None, "", "https://auth.company.com"}
RetryArguments == {-1, 0, 2}
TimeoutArguments == {-1, 0, 5}

\* bool(v) of a url
falsy(v) == v \in {None, ""}

\* set_env_defaults / __post_init__: the url of the environment when none is given
set_env_defaults(values, env) ==
    [values EXCEPT !.denied_url =
        IF values.denied_url = None THEN getenv_DENIED_URL(env)
        ELSE values.denied_url]

\* what the field constraints and validate_denied_url / validate() object to
ConfigErrors(values) ==
    (IF falsy(values.denied_url)
     THEN {"denied_url must be provided or DENIED_URL must be set"} ELSE {})
    \cup (IF values.retry_attempts < 0
          THEN {"retry_attempts must be non-negative"} ELSE {})
    \cup (IF values.timeout_seconds <= 0
          THEN {"timeout_seconds must be positive"} ELSE {})

\* a constructed configuration object
ConfigObject(values) == [behavior |-> "return", config |-> values]

\* AuthorizationConfig(...): the pydantic models validate their fields, the
\* dataclass runs __post_init__, which only reads the environment
AuthorizationConfig(class, values, env) ==
    LET filled == set_env_defaults(values, env)
    IN  IF class \in PydanticClasses /\ ConfigErrors(filled) # {}
        THEN ValidationError(ConfigErrors(filled))
        ELSE ConfigObject(filled)

\* AuthorizationConfig.validate() of the dataclass
validate(values) ==
    IF ConfigErrors(values) # {} THEN ValidationError(ConfigErrors(values))
    ELSE [behavior |-> "return"]

\* the caller constructs a configuration
Construct(denied_url, retries, timeout_seconds) ==
    /\ config = NoResult
    /\ config' = AuthorizationConfig(config_class,
                    [denied_url |-> denied_url, retry_attempts |-> retries,
                     timeout_seconds |-> timeout_seconds],
                    env_DENIED_URL)
    /\ UNCHANGED <<config_class, env_DENIED_URL, validated, effective_config,
                   config_frame>>

\* the caller of the dataclass calls config.validate() by hand
Validate ==
    /\ config_class = "adk"
    /\ config.behavior = "return"
    /\ validated = NoResult
    /\ validated' = validate(config.config)
    /\ UNCHANGED <<config_class, env_DENIED_URL, config, effective_config,
                   config_frame>>

\* create_denied_permission_callback(config) builds its effective_config
\* from config.model_dump(); AuthorizationPlugin(config) keeps the object
CreateGate ==
    /\ config_class \in PydanticClasses
    /\ config.behavior = "return"
    /\ effective_config = NoResult
    /\ effective_config' =
          IF config_class = "claude_sdk"
          THEN AuthorizationConfig("claude_sdk", config.config, env_DENIED_URL)
          ELSE config
    /\ UNCHANGED <<config_class, env_DENIED_URL, config, validated,
                   config_frame>>

InitConfig ==
    /\ GateIdle
    /\ CoerceIdle
    /\ ClientIdle
    /\ ActionIdle
    /\ MapperIdle
    /\ config_class \in ConfigClasses
    /\ env_DENIED_URL \in EnvUrls
    /\ config = NoResult
    /\ validated = NoResult
    /\ effective_config = NoResult
    /\ FactoryIdle
    /\ FlowIdle
    /\ OwnerIdle

NextConfig ==
    \/ \E denied_url \in UrlArguments, retries \in RetryArguments,
          timeout_seconds \in TimeoutArguments :
            Construct(denied_url, retries, timeout_seconds)
    \/ Validate
    \/ CreateGate

SpecConfig == InitConfig /\ [][NextConfig]_vars

-----------------------------------------------------------------------------
(* Context mappers: claude_sdk/context_mapper.py, google_adk/context_mapper.py *)

Mappers == {"claude_sdk", "google_adk"}

\* the tools being invoked, and the name other inputs try to pass for it
MappedTools == {<<"delete", "x">>, <<"Bash">>}
OtherTool == <<"read", "x">>

\* d[k] = v / d.update(e) on the value of a dict
store(d, k, v) == [x \in DOMAIN d \cup {k} |-> IF x = k THEN v ELSE d[x]]
merged(d, e) ==
    [x \in DOMAIN d \cup DOMAIN e |-> IF x \in DOMAIN e THEN e[x] ELSE d[x]]

\* the same statements on the object a name refers to
setitem(o, ref, k, v) == [o EXCEPT ![ref] = store(o[ref], k, v)]
update(o, ref, e) == [o EXCEPT ![ref] = merged(o[ref], e)]

\* a mapper that keeps its attributes dict and fills it again on every call
new_reuse(o, fresh, items) == [o EXCEPT ![fresh] = merged(o[fresh], items)]

\* a new dict object with the items given
new(o, fresh, items) == [o EXCEPT ![fresh] = items]

\* attributes = src: the name is bound to the caller's dict itself
no_copy(src, fresh) == src

\* attributes = dict(src): the name is bound to a new dict
dict_copy(src, fresh) == fresh

\* the objects a caller hands to the mapper of the Claude Agent SDK
ClaudeInputs ==
    [config : [extract_tool_args : BOOLEAN, user_id : {None, "alice"},
               session_id : {None, "s1"}],
     principal_attributes : {EmptyDict, [role |-> "admin"]},
     resource_attributes :
        {EmptyDict, [scope |-> "user"], [tool_name |-> OtherTool]},
     tool_input :
        {EmptyDict, [command |-> RmFile],
         [tool_name |-> OtherTool, path |-> "/x"]}]

\* the objects the ADK hands to the mapper of the plugin
AdkInputs ==
    [config : [extract_tool_args : BOOLEAN, include_user_id : BOOLEAN,
               include_agent_name : BOOLEAN, include_session_id : BOOLEAN],
     tool_args :
        {EmptyDict, [name |-> "n"], [tool_name |-> OtherTool, path |-> "/x"]},
     custom_metadata :
        {EmptyDict, [owner |-> "ops"], [tool_name |-> OtherTool]},
     inputSchema : {EmptyDict, [type |-> "object"]},
     state :
        {EmptyDict, [resource_scope |-> "user", role |-> "admin"],
         [tool_name |-> OtherTool]}]

\* the dicts the mapper creates itself
OwnDicts == {"principal.attributes", "resource.attributes"}

\* the inputs, and the mapper's own dicts not yet created
Objects(inputs) ==
    [n \in DOMAIN inputs \cup OwnDicts |->
        IF n \in OwnDicts THEN EmptyDict ELSE inputs[n]]

\* claude_sdk ContextMapper.extract_principal
extract_principal(o) ==
    LET attributes == dict_copy("principal_attributes", "principal.attributes")
        o0 == new(o, "principal.attributes", o["principal_attributes"])
        o1 == IF ~falsy(o.config.user_id)
              THEN setitem(o0, attributes, "user_id", o.config.user_id) ELSE o0
        o2 == IF ~falsy(o.config.session_id)
              THEN setitem(o1, attributes, "session_id", o.config.session_id)
              ELSE o1
        principal_id == IF ~falsy(o.config.user_id) THEN o.config.user_id
                        ELSE "claude-agent"
    IN  [objs |-> o2,
         value |-> [uri |-> <<"user", principal_id>>,
                    attributes |-> IF DOMAIN o2[attributes] = {} THEN NoneInput
                                   ELSE Input(o2[attributes])]]

\* claude_sdk ContextMapper.extract_resource
extract_resource(o, name, tool_input) ==
    LET attributes == dict_copy("resource_attributes", "resource.attributes")
        o0 == new(o, "resource.attributes", o["resource_attributes"])
        o1 == setitem(o0, attributes, "tool_name", name)
        o2 == IF o.config.extract_tool_args /\ DOMAIN o1[tool_input] # {}
              THEN setitem(o1, attributes, "tool_input",
                           [values |-> o1[tool_input]])
              ELSE o1
    IN  [objs |-> o2,
         value |-> [uri |-> <<"tool", name>>, attributes |-> o2[attributes]]]

\* claude_sdk ContextMapper.create_check_request
create_check_request(o, name) ==
    LET principal == extract_principal(o)
        resource == extract_resource(principal.objs, name, "tool_input")
    IN  [objs |-> resource.objs,
         value |-> [principal |-> principal.value, resource |-> resource.value,
                    action |-> extract_action(name, Input(o["tool_input"]))]]

\* google_adk ContextMapper._action_patterns: (^|_)(stems)_ in this order
_action_patterns ==
    <<[stems |-> {"read", "get", "fetch", "load", "list", "search", "query",
                  "retrieve"}, add_member |-> FALSE, action |-> "read"],
      [stems |-> {"write", "create", "add", "insert", "post", "save", "send",
                  "upload"}, add_member |-> FALSE, action |-> "create"],
      [stems |-> {"update", "modify", "edit", "change", "set", "patch",
                  "rename", "mark"}, add_member |-> FALSE, action |-> "update"],
      [stems |-> {"delete", "remove", "drop", "unshare"},
       add_member |-> FALSE, action |-> "delete"],
      [stems |-> {"share"}, add_member |-> TRUE, action |-> "update"],
      [stems |-> {"merge", "fork", "copy", "move"},
       add_member |-> FALSE, action |-> "update"],
      [stems |-> {"lock", "unlock", "restore"},
       add_member |-> FALSE, action |-> "update"],
      [stems |-> {"execute", "run", "call", "invoke", "batch"},
       add_member |-> FALSE, action |-> "execute"]>>

\* pattern.search(tool_name_lower): a stem that an underscore follows
adk_search(pattern, name) ==
    \/ \E i \in 1..(Len(name) - 1) : lower(name[i]) \in pattern.stems
    \/ /\ pattern.add_member
       /\ \E i \in 1..Len(name), j \in 1..(Len(name) - 1) :
             /\ i + 2 <= j
             /\ lower(name[i]) = "add"
             /\ lower(name[j]) = "member"

\* google_adk ContextMapper.extract_action
adk_extract_action(name) ==
    LET hits == {i \in 1..Len(_action_patterns) :
                    adk_search(_action_patterns[i], name)}
    IN  IF hits = {} THEN "execute"
        ELSE _action_patterns[CHOOSE i \in hits : \A j \in hits : i <= j].action

\* what the tool context of one invocation holds besides the session state
ToolContext ==
    [user_id |-> "alice", agent_name |-> "agent", session_id |-> "s1",
     invocation_id |-> "inv1"]

\* the description of the tool
ToolDescription == "a tool"

\* the argument names that are copied into the resource
resource_arg_names ==
    {"file_path", "path", "filename", "resource_id", "document_id",
     "object_id", "key", "name"}

\* the items of d under the keys given
restrict(d, keys) == [k \in DOMAIN d \cap keys |-> d[k]]

\* google_adk ContextMapper.extract_principal
adk_extract_principal(o) ==
    LET attributes == "principal.attributes"
        o0 == new(o, attributes, EmptyDict)
        o1 == IF o.config.include_user_id
              THEN setitem(o0, attributes, "user_id", ToolContext.user_id)
              ELSE o0
        o2 == IF o.config.include_agent_name
              THEN setitem(o1, attributes, "agent_name", ToolContext.agent_name)
              ELSE o1
        o3 == IF o.config.include_session_id
              THEN setitem(o2, attributes, "session_id", ToolContext.session_id)
              ELSE o2
        o4 == setitem(o3, attributes, "invocation_id", ToolContext.invocation_id)
        o5 == update(o4, attributes, restrict(o4.state, {"role", "department"}))
    IN  [objs |-> o5,
         value |-> [uri |-> <<"user", ToolContext.user_id>>,
                    attributes |-> Input(o5[attributes])]]

\* google_adk ContextMapper.extract_resource
adk_extract_resource(o, name) ==
    LET attributes == "resource.attributes"
        o0 == new(o, attributes, [tool_name |-> name])
        o1 == setitem(o0, attributes, "tool_description", ToolDescription)
        o2 == IF DOMAIN o1.inputSchema # {}
              THEN setitem(o1, attributes, "tool_input_schema", o1.inputSchema)
              ELSE o1
        o3 == IF DOMAIN o2.custom_metadata # {}
              THEN update(o2, attributes, o2.custom_metadata)
              ELSE o2
        o4 == IF o.config.extract_tool_args
              THEN update(o3, attributes,
                          restrict(o3.tool_args, resource_arg_names))
              ELSE o3
        o5 == IF "resource_scope" \in DOMAIN o4.state
              THEN setitem(o4, attributes, "scope", o4.state.resource_scope)
              ELSE o4
    IN  [objs |-> o5,
         value |-> [uri |-> <<"tool", name>>, attributes |-> o5[attributes]]]

\* google_adk ContextMapper.create_check_request
adk_create_check_request(o, name) ==
    LET principal == adk_extract_principal(o)
        resource == adk_extract_resource(principal.objs, name)
    IN  [objs |-> resource.objs,
         value |-> [principal |-> principal.value, resource |-> resource.value,
                    action |-> adk_extract_action(name)]]

\* model_dump of the CheckRequest: the entity types filled in
request_dump(request) ==
    [principal |-> [type |-> "principal", uri |-> request.principal.uri,
                    attributes |-> request.principal.attributes],
     resource |-> [type |-> "resource", uri |-> request.resource.uri,
                   attributes |-> request.resource.attributes],
     action |-> request.action]

\* the objects that come with each call; the others belong to the mapper
CallInputNames(m) ==
    IF m = "claude_sdk" THEN {"tool_input"}
    ELSE {"tool_args", "custom_metadata", "inputSchema", "state"}

\* what a caller hands over with each call, besides the tool name
CallInputs(m) ==
    IF m = "claude_sdk"
    THEN [tool_input : {EmptyDict, [command |-> RmFile],
                        [tool_name |-> OtherTool, path |-> "/x"]}]
    ELSE {[tool_args |-> EmptyDict, custom_metadata |-> EmptyDict,
           inputSchema |-> EmptyDict, state |-> EmptyDict],
          [tool_args |-> [name |-> "n"], custom_metadata |-> [owner |-> "ops"],
           inputSchema |-> [type |-> "object"], state |-> EmptyDict],
          [tool_args |-> EmptyDict, custom_metadata |-> EmptyDict,
           inputSchema |-> EmptyDict,
           state |-> [resource_scope |-> "user", role |-> "admin"]]}

\* mapper.create_check_request(...) on the objects o for the tool given
Build(o, name) ==
    LET built == IF mapper = "claude_sdk"
                 THEN create_check_request(o, name)
                 ELSE adk_create_check_request(o, name)
    IN  /\ before' = o
        /\ objs' = built.objs
        /\ check_request' = built.value
        /\ bodies' = Append(bodies,
                            [tool |-> name,
                             inputs |-> restrict(o, CallInputNames(mapper)),
                             body |-> request_dump(built.value)])

\* create_check_request is called once with the tool of this invocation
CreateCheckRequest ==
    /\ check_request = NoResult
    /\ Build(objs, mapped_tool)
    /\ UNCHANGED <<mapper, mapped_tool, mapper_frame>>

\* a later invocation: the same mapper is called with a tool and call inputs
CreateAnother(name, inputs) ==
    /\ check_request # NoResult
    /\ Len(bodies) < MaxBuilds
    /\ mapped_tool' = name
    /\ Build(merged(objs, inputs), name)
    /\ UNCHANGED <<mapper, mapper_frame>>

InitMapper ==
    /\ GateIdle /\ CoerceIdle /\ ClientIdle /\ ActionIdle /\ ConfigIdle
    /\ mapper \in Mappers
    /\ mapped_tool \in MappedTools
    /\ objs \in {Objects(inputs) :
                    inputs \in IF mapper = "claude_sdk" THEN ClaudeInputs
                               ELSE AdkInputs}
    /\ before = <<>>
    /\ check_request = NoResult
    /\ bodies = <<>>
    /\ FactoryIdle
    /\ FlowIdle
    /\ OwnerIdle

NextMapper ==
    \/ CreateCheckRequest
    \/ \E name \in MappedTools, inputs \in CallInputs(mapper) :
          CreateAnother(name, inputs)

SpecMapper == InitMapper /\ [][NextMapper]_vars

-----------------------------------------------------------------------------
(* The callback factory: claude_sdk/callback.py create_denied_permission_callback *)

\* user and session ids a caller sets or passes; "" is a string that is empty
UserIds == {None, "", "alice"}
UserIdOverrides == {None, "", "bob"}
SessionIds == {None, "s1"}
SessionIdOverrides == {None, "s2"}

\* the configurations a caller holds (config=None gives the default values,
\* which are among them)
CallerConfigs ==
    [fail_mode : FailModes, retry_attempts : {0, 2},
     extract_tool_args : {TRUE}, user_id : UserIds, session_id : SessionIds]

\* subject_properties of the caller; None and {} both give the empty dict
SubjectProperties == {EmptyDict, [role |-> "admin"]}

\* a closure that reads the caller's configuration object on every call
closure_config_shared(cb, host) ==
    [host EXCEPT
        !.user_id = IF cb.user_id # None THEN cb.user_id ELSE host.user_id,
        !.session_id =
            IF cb.session_id # None THEN cb.session_id ELSE host.session_id]

\* effective_config as the closure reads it: the object made by the factory
closure_config(cb, host) == cb.effective_config

\* callback.py 75-105: config.model_dump(), the overrides that are not None,
\* AuthorizationConfig(**config_dict), and the mapper with the properties
create_denied_permission_callback(cfg, user_id, session_id, subject_properties) ==
    LET config_dict == cfg
        with_user == IF user_id # None
                     THEN [config_dict EXCEPT !.user_id = user_id]
                     ELSE config_dict
        with_session == IF session_id # None
                        THEN [with_user EXCEPT !.session_id = session_id]
                        ELSE with_user
    IN  [effective_config |-> with_session,
         user_id |-> user_id,
         session_id |-> session_id,
         principal_attributes |-> subject_properties]

\* the objects the mapper of the closure works on for a call without arguments
ClosureObjects(cb, eff) ==
    Objects([config |-> [extract_tool_args |-> eff.extract_tool_args,
                         user_id |-> eff.user_id,
                         session_id |-> eff.session_id],
             principal_attributes |-> cb.principal_attributes,
             resource_attributes |-> EmptyDict,
             tool_input |-> EmptyDict])

\* what _check_with_retry hands back: None after every attempt raised, or
\* the response of the first attempt
RetryResults ==
    {ReturnedNone}
    \cup {Returned(resp) : resp \in {r \in CheckResponse : r.has_context}}

\* denied_permission_callback(tool_name, {}, context) with the service
\* failing throughout (r is None) or answering at once
denied_permission_callback_call(cb, eff, name, r) ==
    [tool_name |-> name,
     request |-> create_check_request(ClosureObjects(cb, eff), name).value,
     attempts |-> IF r.none THEN eff.retry_attempts + 1 ELSE 1,
     check_result |-> r,
     result |-> denied_permission_callback(eff.fail_mode, r)]

\* the host creates the callback from its configuration and the overrides
CreateCallback(user_id, session_id, subject_properties) ==
    /\ callback = NoResult
    /\ callback' = create_denied_permission_callback(
                       host_config, user_id, session_id, subject_properties)
    /\ created_with' = [config |-> host_config, user_id |-> user_id,
                        session_id |-> session_id,
                        subject_properties |-> subject_properties]
    /\ UNCHANGED <<host_config, invocation, factory_frame>>

\* the caller assigns to a field of its configuration object afterwards
SetConfig(changed) ==
    /\ callback # NoResult
    /\ Cardinality({f \in DOMAIN host_config : changed[f] # host_config[f]}) = 1
    /\ host_config' = changed
    /\ UNCHANGED <<callback, created_with, invocation, factory_frame>>

\* the SDK calls the callback for a tool
CallCallback(name, r) ==
    /\ callback # NoResult
    /\ invocation' = denied_permission_callback_call(
                         callback, closure_config(callback, host_config), name, r)
    /\ UNCHANGED <<host_config, callback, created_with, factory_frame>>

InitFactory ==
    /\ GateIdle /\ CoerceIdle /\ ClientIdle /\ ActionIdle /\ ConfigIdle
    /\ MapperIdle
    /\ host_config \in CallerConfigs
    /\ callback = NoResult
    /\ created_with = NoResult
    /\ invocation = NoResult
    /\ FlowIdle
    /\ OwnerIdle

NextFactory ==
    \/ \E user_id \in UserIdOverrides, session_id \in SessionIdOverrides,
          subject_properties \in SubjectProperties :
            CreateCallback(user_id, session_id, subject_properties)
    \/ \E changed \in CallerConfigs : SetConfig(changed)
    \/ \E name \in MappedTools, r \in RetryResults : CallCallback(name, r)

SpecFactory == InitFactory /\ [][NextFactory]_vars

-----------------------------------------------------------------------------
(* Concurrent invocations of one gate: coroutines on one event loop that   *)
(* share the client and the configuration                                  *)

Flows == 1..MaxFlows

\* retry_attempts of the shared configuration
FlowRetries == {0, 1, 2}

\* the responses the shared client returns
FlowResponses(g) ==
    IF g = "claude_sdk"
    THEN {[decision |-> TRUE, has_context |-> FALSE],
          [decision |-> FALSE, has_context |-> TRUE,
           context |-> [reason |-> "Insufficient permissions"]]}
    ELSE {[allowed |-> TRUE, reason |-> None],
          [allowed |-> FALSE, reason |-> "Insufficient permissions"]}

\* the CheckRequest objects the mapper hands to the callback
FlowRequests ==
    {[principal |-> [uri |-> "user:alice", attributes |-> [user_id |-> "alice"]],
      resource |-> [uri |-> "tool:Bash", attributes |-> [tool_name |-> "Bash"]],
      action |-> "execute", context |-> None],
     [principal |-> [uri |-> "user:alice", attributes |-> [user_id |-> "alice"]],
      resource |-> [uri |-> "tool:read", attributes |-> [tool_name |-> "read"]],
      action |-> "read", context |-> None]}

\* a coroutine that was not started
FlowNotStarted ==
    [pc |-> "idle", attempt |-> 0, calls |-> 0, raises |-> 0, error |-> None,
     request |-> NoResult, sent |-> <<>>,
     check_result |-> NotReturned, result |-> NoResult]

\* a loop that builds its keyword arguments anew and loses the attributes
\* of the resource after the first attempt
check_call_rebuilt(g, request, a) ==
    IF g = "claude_sdk"
    THEN [subject |-> request.principal, action |-> request.action,
          resource |-> IF a = 0 THEN request.resource
                       ELSE [request.resource EXCEPT !.attributes = EmptyDict],
          context |-> request.context]
    ELSE [principal_uri |-> request.principal.uri,
          principal_attributes |-> request.principal.attributes,
          resource_uri |-> request.resource.uri,
          resource_attributes |-> IF a = 0 THEN request.resource.attributes
                                  ELSE EmptyDict,
          action |-> request.action]

\* the keyword arguments of client.check in iteration a of the loop: they
\* are read from check_request each time and do not depend on a
check_call(g, request, a) ==
    IF g = "claude_sdk"
    THEN [subject |-> request.principal, action |-> request.action,
          resource |-> request.resource, context |-> request.context]
    ELSE [principal_uri |-> request.principal.uri,
          principal_attributes |-> request.principal.attributes,
          resource_uri |-> request.resource.uri,
          resource_attributes |-> request.resource.attributes,
          action |-> request.action]

\* one attempt counter kept on the shared gate object
next_attempt_shared(fs, i) ==
    [j \in DOMAIN fs |-> [fs[j] EXCEPT !.attempt = fs[i].attempt + 1]]

\* for attempt in range(...): attempt is a local of the coroutine
next_attempt(fs, i) == [fs EXCEPT ![i].attempt = @ + 1]

\* a callback that puts the exception it caught last into the denial
FlowFinish_with_detail(fs, i, r) ==
    [fs EXCEPT ![i].pc = "done",
               ![i].check_result = r,
               ![i].result =
                   IF r.none /\ flow_config.fail_mode = "closed"
                   THEN PermissionResultDeny(
                            UnavailableMessage \o ": " \o fs[i].error)
                   ELSE GateResult(flow_config.gate, flow_config.fail_mode, r)]

\* _check_with_retry of flow i returns r and the callback resolves it; the
\* exception e of the last attempt was logged and is not part of r
FlowFinish(fs, i, r) ==
    [fs EXCEPT ![i].pc = "done",
               ![i].check_result = r,
               ![i].result = GateResult(flow_config.gate, flow_config.fail_mode, r)]

\* the host calls the gate: the mapper builds the request of flow i, then
\* flow i awaits its first client.check
FlowInvoke(i, req) ==
    /\ flows[i].pc = "idle"
    /\ LET started == [flows EXCEPT ![i].request = req]
       IN  flows' = IF in_range(0, flow_config.retry_attempts)
                    THEN [started EXCEPT
                            ![i].pc = "checking", ![i].attempt = 0,
                            ![i].calls = 1,
                            ![i].sent = <<check_call(flow_config.gate, req, 0)>>]
                    ELSE FlowFinish(started, i, ReturnedNone)
    /\ UNCHANGED <<flow_config, flow_frame>>

\* the client.check flow i awaits returns a response
FlowReturns(i, resp) ==
    /\ flows[i].pc = "checking"
    /\ flows' = FlowFinish(flows, i, Returned(resp))
    /\ UNCHANGED <<flow_config, flow_frame>>

\* the client.check flow i awaits raises: e is bound to the exception
FlowRaises(i, exc) ==
    /\ flows[i].pc = "checking"
    /\ LET raised == [flows EXCEPT ![i].raises = @ + 1, ![i].error = exc]
       IN  flows' = IF FinalAttempt(flow_config.gate, flows[i].attempt,
                                    flow_config.retry_attempts)
                    THEN FlowFinish(raised, i, ReturnedNone)
                    ELSE [raised EXCEPT ![i].pc = "sleeping"]
    /\ UNCHANGED <<flow_config, flow_frame>>

\* the asyncio.sleep of flow i is over: its loop goes on
FlowWake(i) ==
    /\ flows[i].pc = "sleeping"
    /\ LET woken == next_attempt(flows, i)
       IN  flows' = IF in_range(woken[i].attempt, flow_config.retry_attempts)
                    THEN [woken EXCEPT
                            ![i].pc = "checking", ![i].calls = @ + 1,
                            ![i].sent = Append(@, check_call(
                                flow_config.gate, woken[i].request,
                                woken[i].attempt))]
                    ELSE FlowFinish(woken, i, ReturnedNone)
    /\ UNCHANGED <<flow_config, flow_frame>>

InitFlows ==
    /\ GateIdle /\ CoerceIdle /\ ClientIdle /\ ActionIdle /\ ConfigIdle
    /\ MapperIdle /\ FactoryIdle
    /\ flow_config \in [gate : Gates, fail_mode : FailModes,
                        retry_attempts : FlowRetries]
    /\ flows = [i \in Flows |-> FlowNotStarted]
    /\ OwnerIdle

NextFlows ==
    \/ \E i \in Flows, req \in FlowRequests : FlowInvoke(i, req)
    \/ \E i \in Flows, resp \in FlowResponses(flow_config.gate) :
          FlowReturns(i, resp)
    \/ \E i \in Flows, exc \in Exceptions : FlowRaises(i, exc)
    \/ \E i \in Flows : FlowWake(i)

SpecFlows == InitFlows /\ [][NextFlows]_vars

-----------------------------------------------------------------------------
(* Who constructs the client of a gate, and who closes it *)

\* client = denied_client or AsyncDeniedClient(...): who constructed it
constructed_by(denied_client_given) ==
    IF denied_client_given THEN "host" ELSE "gate"

\* what the host holds of the gate to release it: AuthorizationPlugin has
\* close(); create_denied_permission_callback returns the callback alone
has_release(g) == g = "google_adk"

\* close calls on the client among the operations
CloseCalls(operations) ==
    Len(SelectSeq(operations, LAMBDA op : op \in {"gate close", "host close"}))

\* the host creates the gate, with a client of its own or without
CreateOwner(g, denied_client_given) ==
    /\ phase = "init"
    /\ ownership' = [gate |-> g,
                     constructed_by |-> constructed_by(denied_client_given)]
    /\ phase' = "running"
    /\ UNCHANGED <<ops, owner_frame>>

\* an invocation of the gate calls client.check
OwnerCheck ==
    /\ phase = "running"
    /\ Len(ops) < MaxOps
    /\ ops' = Append(ops, "check")
    /\ UNCHANGED <<ownership, phase, owner_frame>>

\* the runner shuts the plugin down: AuthorizationPlugin.close() closes
\* self.client, injected or not
GateClose ==
    /\ phase = "running"
    /\ has_release(ownership.gate)
    /\ Len(ops) < MaxOps
    /\ \A i \in 1..Len(ops) : ops[i] # "gate close"
    /\ ops' = Append(ops, "gate close")
    /\ UNCHANGED <<ownership, phase, owner_frame>>

\* the host closes the client it constructed and injected
HostClose ==
    /\ phase = "running"
    /\ ownership.constructed_by = "host"
    /\ Len(ops) < MaxOps
    /\ \A i \in 1..Len(ops) : ops[i] # "host close"
    /\ ops' = Append(ops, "host close")
    /\ UNCHANGED <<ownership, phase, owner_frame>>

\* the host stops once every release it can call was called: the close()
\* of the gate where there is one, the close of the client it constructed
Shutdown ==
    /\ phase = "running"
    /\ has_release(ownership.gate) => \E i \in 1..Len(ops) : ops[i] = "gate close"
    /\ ownership.constructed_by = "host" =>
           \E i \in 1..Len(ops) : ops[i] = "host close"
    /\ phase' = "stopped"
    /\ UNCHANGED <<ownership, ops, owner_frame>>

InitOwner ==
    /\ GateIdle /\ CoerceIdle /\ ClientIdle /\ ActionIdle /\ ConfigIdle
    /\ MapperIdle /\ FactoryIdle /\ FlowIdle
    /\ ownership = NoResult
    /\ ops = <<>>
    /\ phase = "init"

NextOwner ==
    \/ \E g \in Gates, denied_client_given \in BOOLEAN :
          CreateOwner(g, denied_client_given)
    \/ OwnerCheck
    \/ GateClose
    \/ HostClose
    \/ Shutdown

SpecOwner == InitOwner /\ [][NextOwner]_vars

-----------------------------------------------------------------------------
(* What one invocation did, read off its events *)

ChecksMade == SelectSeq(events, LAMBDA e : e.ev = "check")
RaisesSeen == SelectSeq(events, LAMBDA e : e.ev = "raise")
SleepsDone == SelectSeq(events, LAMBDA e : e.ev = "sleep")

\* client.check.call_count of the invocation
CallCount == Len(ChecksMade)

\* an attempt of the invocation obtained a response
GotResponse == check_result.returned /\ ~check_result.none

\* the decision flag of the response obtained
DecisionOf(resp) == IF gate = "claude_sdk" THEN resp.decision ELSE resp.allowed

\* the invocation is over and every attempt, the initial one and all
\* retry_attempts retries, raised
EveryAttemptFailed == pc = "done" /\ Len(RaisesSeen) = retry_attempts + 1

\* a denial message that tells of service unavailability
MentionsUnavailable(m) ==
    m \in {UnavailableMessage, "Authorization denied: " \o UnavailableMessage}

-----------------------------------------------------------------------------
(* Claims *)

\* C1: when every attempt of an invocation raised, fail_mode alone decides:
\* "closed" gives a denial whose message mentions service unavailability,
\* "open" gives an allow, whatever the tool and the exceptions were.
C1_FailModeDecides ==
    EveryAttemptFailed =>
        /\ fail_mode = "closed" =>
               /\ result.behavior = "deny"
               /\ MentionsUnavailable(result.message)
        /\ fail_mode = "open" => result = PermissionResultAllow

C1_Witness ==
    /\ EveryAttemptFailed
    /\ fail_mode = "open"
    /\ retry_attempts = 2
    /\ result = PermissionResultAllow

\* C2: when check raised N <= retry_attempts times and then returned a
\* response, the gate returns that response's outcome (allow for a true
\* decision, deny for a false one) and check was called exactly N + 1 times.
C2_RetryThenResponse ==
    (pc = "done" /\ GotResponse) =>
        /\ Len(RaisesSeen) <= retry_attempts
        /\ CallCount = Len(RaisesSeen) + 1
        /\ result.behavior =
               IF DecisionOf(check_result.response) THEN "allow" ELSE "deny"

\* C3: when check raises on every attempt the invocation calls it exactly
\* retry_attempts + 1 times, never more and never fewer, and then resolves
\* through the fail-mode policy.
C3_ExactAttemptCount ==
    /\ CallCount <= retry_attempts + 1
    /\ (pc = "done" /\ ~GotResponse) =>
           /\ CallCount = retry_attempts + 1
           /\ Len(RaisesSeen) = retry_attempts + 1
           /\ check_result = ReturnedNone
           /\ result.behavior = IF fail_mode = "closed" THEN "deny" ELSE "allow"

C3_Witness ==
    /\ pc = "done"
    /\ ~GotResponse
    /\ retry_attempts = MaxRetry
    /\ CallCount = MaxRetry + 1

\* C4: once a response is obtained the gate allows if and only if its
\* decision flag is true, whatever fail_mode is: "open" never allows a false
\* decision and "closed" never denies a true one.
C4_DecisionDecides ==
    (pc = "done" /\ GotResponse) =>
        /\ (result = PermissionResultAllow) <=> DecisionOf(check_result.response)
        /\ DecisionOf(check_result.response) => result.behavior # "deny"

C4_Witness ==
    /\ pc = "done"
    /\ GotResponse
    /\ fail_mode = "open"
    /\ ~DecisionOf(check_result.response)
    /\ result.behavior = "deny"

\* the reason the response obtained carries, None when it carries none
ReasonOf(resp) ==
    IF gate = "claude_sdk"
    THEN IF resp.has_context THEN resp.context.reason ELSE None
    ELSE resp.reason

\* C5: a response with decision=false is denied with the response's reason
\* when one is supplied and with the generic "Authorization denied" when
\* none is, for every valid response, its context absent or its reason null.
C5_DenialCarriesReason ==
    (pc = "done" /\ GotResponse /\ ~DecisionOf(check_result.response)) =>
        /\ result.behavior = "deny"
        /\ LET reason == ReasonOf(check_result.response) IN
           IF reason \in {None, ""}
           THEN result.message = GenericDenied
           ELSE result.message \in {reason, "Authorization denied: " \o reason}

\* C6: no exception ever leaves the gate: whatever the client returned or
\* raised, the host receives an allow or a deny.
C6_NeverRaises == result.behavior # "raise"

\* C7: a response with decision=false ends the invocation: no attempt and no
\* sleep follow it (one call if the first attempt returned it), and it yields
\* a denial whose message is not the one of service unavailability.
C7_DenialIsNotFailure ==
    (pc = "done" /\ GotResponse /\ ~DecisionOf(check_result.response)) =>
        /\ events[Len(events)].ev = "return"
        /\ CallCount = Len(RaisesSeen) + 1
        /\ Len(SleepsDone) = Len(RaisesSeen)
        /\ result.behavior = "deny"
        /\ ~MentionsUnavailable(result.message)

\* C8: a format error raised by an attempt is neither retried nor swallowed:
\* nothing follows it (no sleep, no further check) and it leaves the gate as
\* the exception it is, not as a fail-mode decision.
C8_FormatErrorSurfaces ==
    \A i \in 1..Len(events) :
        (events[i].ev = "raise" /\ events[i].exception \in FormatErrors) =>
            /\ i = Len(events)
            /\ pc = "done"
            /\ result = Raised(events[i].exception)

\* C9: the back-off is exponential: a failed attempt k that is not the last
\* one is followed by a sleep of 100 ms * 2^k and then by attempt k + 1; no
\* sleep precedes the first attempt and none follows the final failed one.
C9_ExponentialBackoff ==
    /\ events # <<>> => events[1] = CheckEvent(0, tool_name)
    /\ \A i \in 1..Len(events) :
           /\ events[i].ev = "sleep" =>
                  /\ i > 1
                  /\ events[i - 1].ev = "raise"
                  /\ events[i - 1].attempt = events[i].attempt
                  /\ events[i].attempt < retry_attempts
                  /\ events[i].ms = 100 * (2 ^ events[i].attempt)
                  /\ i < Len(events) =>
                         events[i + 1] = CheckEvent(events[i].attempt + 1, tool_name)
           /\ events[i].ev = "raise" =>
                  IF events[i].attempt < retry_attempts
                  THEN i < Len(events) /\ events[i + 1].ev = "sleep"
                  ELSE i = Len(events)

C9_Witness ==
    /\ pc = "done"
    /\ Len(SleepsDone) = 3
    /\ SleepsDone[1].ms = 100
    /\ SleepsDone[2].ms = 200
    /\ SleepsDone[3].ms = 400

\* C10: coercing type + "://" + id, for a type that holds no "://", gives the
\* entity of the validator's class with exactly that type and that id, also
\* when the id holds "/" or "://", and with empty properties.
C10_CoercionRoundTrip ==
    (coerce_out # NoResult /\ coerce_in.kind = "str") =>
        \A n \in 0..Len(coerce_in.value) :
            LET type == SubSeq(coerce_in.value, 1, n)
                id == SubSeq(coerce_in.value, n + 4, Len(coerce_in.value))
            IN  (/\ n + 3 <= Len(coerce_in.value)
                 /\ SubSeq(coerce_in.value, n + 1, n + 3) = Delimiter
                 /\ ~Contains(type))
                => /\ coerce_out.behavior = "return"
                   /\ coerce_out.entity.class \in {"Subject", "Resource"}
                   /\ coerce_out.entity.type = type
                   /\ coerce_out.entity.id = id
                   /\ coerce_out.entity.properties = {}

C10_Witness ==
    /\ coerce_in = [kind |-> "str", value |-> <<":", "/", "/", ":", "/", "/", "a">>]
    /\ coerce_out =
           Coerced(Entity("Resource", <<>>, <<":", "/", "/", "a">>, {}))

-----------------------------------------------------------------------------
(* Claims about the Decision Client *)

\* the strings of a check call that lack the delimiter
LacksDelimiter(v) == v.kind = "str" /\ ~Contains(v.value)

\* C11: a check whose subject or resource is a string without "://" raises a
\* ValueError that names the form 'type://id', and nothing is posted
C11_NoDelimiterNoRequest ==
    (call.op = "check" /\ call.form = "like"
        /\ (LacksDelimiter(call.subject) \/ LacksDelimiter(call.resource)))
    => /\ call_out.behavior = "raise"
       /\ call_out.exception = "ValueError"
       /\ \E e \in call_out.errors : e.expected = "type://id"
       /\ posted = <<>>

\* a check of subject "a:a" with a well-formed resource has raised
C11_Witness ==
    /\ call.op = "check"
    /\ call.form = "like"
    /\ call.subject = [kind |-> "str", value |-> <<"a", ":", "a">>]
    /\ call.resource = [kind |-> "str", value |-> <<"a", ":", "/", "/", "a">>]
    /\ call_out.behavior = "raise"
    /\ posted = <<>>

-----------------------------------------------------------------------------
(* Claims about action inference *)

\* the payload holds a non-empty command
HasCommand(tool_input) ==
    /\ ~tool_input.is_none
    /\ "command" \in DOMAIN tool_input.dict
    /\ tool_input.dict.command # <<>>

\* the verb of a command, class by class in the order of the claim
ClassOf(command) ==
    IF Redirects(command) THEN "create"
    ELSE IF \/ HasWord(command, WriteCommands \cup TeeCommands)
            \/ HasOption(command, "wget", "o")
            \/ HasOption(command, "curl", "o") THEN "create"
    ELSE IF HasWord(command, DeleteCommands) THEN "delete"
    ELSE IF \/ HasOption(command, "sed", "i")
            \/ HasWord(command, PermissionCommands) THEN "update"
    ELSE IF HasWord(command, ReadCommands) \/ PlainEcho(command) THEN "read"
    ELSE "execute"

\* C12: for the shell tool with a non-empty command the verb is the class of
\* the command, first class first ("ls -la" read, "echo hi > f.txt" create,
\* "rm f.txt" delete, "npm install" execute); without a command it is execute
C12_BashByCommand ==
    (action_out # NotCalled /\ is_bash(name_in))
    => IF HasCommand(input_in)
       THEN /\ action_out = ClassOf(input_in.dict.command)
            /\ input_in.dict.command = LsLa => action_out = "read"
            /\ input_in.dict.command = EchoHiToFile => action_out = "create"
            /\ input_in.dict.command = RmFile => action_out = "delete"
            /\ input_in.dict.command = NpmInstall => action_out = "execute"
       ELSE action_out = "execute"

\* "rm | ls" names a delete command and a read command: it is a delete
C12_Witness ==
    /\ is_bash(name_in)
    /\ HasCommand(input_in)
    /\ input_in.dict.command = <<"rm", " ", "|", "ls">>
    /\ action_out = "delete"

\* some segment of the name is one of the stems
HasStem(name, stems) == \E i \in 1..Len(name) : lower(name[i]) \in stems

\* add_ ... _member
HasAddMember(name) ==
    \E i \in 1..Len(name), j \in 1..Len(name) :
        i + 2 <= j /\ lower(name[i]) = "add" /\ lower(name[j]) = "member"

\* the name is a built-in identifier
IsBuiltin(name) ==
    /\ Len(name) = 1
    /\ lower(name[1]) \in ReadIdentifiers \cup CreateIdentifiers
                           \cup UpdateIdentifiers \cup ExecuteIdentifiers

\* the name matches no built-in identifier and no verb stem
Unrecognized(name) ==
    /\ ~IsBuiltin(name)
    /\ ~HasAddMember(name)
    /\ ~HasStem(name, ExecuteStems \cup ShareStems \cup MergeStems
                       \cup LockStems \cup DeleteStems \cup UpdateStems
                       \cup CreateStems \cup ReadStems)

MatchedBeforeDelete(name) ==
    \/ IsBuiltin(name)
    \/ HasAddMember(name)
    \/ HasStem(name, ExecuteStems \cup ShareStems \cup MergeStems \cup LockStems)

\* the general pattern match decided (not the command of the shell tool)
DecidedByName ==
    action_out # NotCalled /\ ~(is_bash(name_in) /\ HasCommand(input_in))

\* C14 as stated: delete and (create or read) stems give delete; create and
\* read stems without a delete stem give create
C14_DeleteCreateRead_AsStated ==
    DecidedByName
    => /\ (HasStem(name_in, DeleteStems)
            /\ HasStem(name_in, CreateStems \cup ReadStems))
          => action_out = "delete"
       /\ (HasStem(name_in, CreateStems) /\ HasStem(name_in, ReadStems)
            /\ ~HasStem(name_in, DeleteStems))
          => action_out = "create"

\* C14: among the names matched by no earlier pattern of the list, delete and
\* (create or read) stems give delete; create and read stems without a delete
\* or update stem give create
C14_DeleteCreateRead ==
    (DecidedByName /\ ~MatchedBeforeDelete(name_in))
    => /\ (HasStem(name_in, DeleteStems)
            /\ HasStem(name_in, CreateStems \cup ReadStems))
          => action_out = "delete"
       /\ (HasStem(name_in, CreateStems) /\ HasStem(name_in, ReadStems)
            /\ ~HasStem(name_in, DeleteStems)
            /\ ~HasStem(name_in, UpdateStems))
          => action_out = "create"

\* get_x_delete holds the read stem first and the delete stem last: delete
C14_Witness ==
    /\ name_in = <<"get", "x", "delete">>
    /\ input_in = NoneInput
    /\ action_out = "delete"

-----------------------------------------------------------------------------
(* Claims about bulk checks, failures and scoped use of the client *)

\* C15: a bulk_check of K requests that returns has sent the K requests in
\* the order given and returns K responses, the i-th being the service's i-th
\* answer, the answer to the i-th request
C15_BulkOrder ==
    (call.op = "bulk_check" /\ call_out.behavior = "return")
    => /\ Len(posted) = 1
       /\ Len(posted[1].json) = Len(call.check_requests)
       /\ \A i \in 1..Len(call.check_requests) :
             posted[1].json[i] = model_dump(call.check_requests[i])
       /\ Len(call_out.responses) = Len(call.check_requests)
       /\ \A i \in 1..Len(call.check_requests) :
             call_out.responses[i] =
                CheckResponse_model_validate(answered[1].body[i]).response

\* a batch of a read and a delete request was allowed and denied, in this order
C15_Witness ==
    /\ call.op = "bulk_check"
    /\ Len(call.check_requests) = 2
    /\ call.check_requests[1].action.name = "read"
    /\ call.check_requests[2].action.name = "delete"
    /\ call_out.behavior = "return"
    /\ call_out.responses[1].decision
    /\ ~call_out.responses[2].decision

\* C16: a non-success status makes check and bulk_check raise an
\* HTTPStatusError whose message holds the response body; nothing is returned
C16_StatusErrorCarriesBody ==
    (call # NoCall /\ Len(answered) = 1 /\ ~is_success(answered[1].status))
    => /\ call_out.behavior = "raise"
       /\ call_out.exception = "httpx.HTTPStatusError"
       /\ call_out.message.Response = answered[1].body

\* a bulk check of two requests was answered 404 and raised
C16_Witness ==
    /\ call.op = "bulk_check"
    /\ Len(call.check_requests) = 2
    /\ Len(answered) = 1
    /\ answered[1].status = 404
    /\ call_out.behavior = "raise"

\* C17: once the with block is left the httpx client is closed, whether the
\* body completed or raised, and the body's exception has reached the caller
C17_ScopedRelease ==
    scope = "left" => (is_closed /\ propagated = body_exc)

\* a with block whose check raised was left with that exception
C17_Witness ==
    /\ scope = "left"
    /\ call_out.behavior = "raise"
    /\ body_exc = "httpx.HTTPStatusError"
    /\ propagated = "httpx.HTTPStatusError"
    /\ is_closed

-----------------------------------------------------------------------------
(* Claims about the configuration *)

\* C18: a configuration with an empty url, a negative retry_attempts or a
\* non-positive timeout is rejected by its constructor: no constructed
\* configuration, and no gate, holds such values
C18_InvalidConfigRejected ==
    /\ config.behavior = "return" => ConfigErrors(config.config) = {}
    /\ effective_config.behavior = "return"
          => ConfigErrors(effective_config.config) = {}

\* the inputs of a mapper: everything it was handed, not the dicts it creates
InputNames == DOMAIN objs \ OwnDicts

\* C19: every Check Request a mapper builds names the resource by the tool and
\* carries a tool_name property equal to the tool being invoked, whatever the
\* call arguments, custom properties, custom metadata or session state hold
C19_ToolNameKept ==
    check_request # NoResult =>
        /\ check_request.resource.uri = <<"tool", mapped_tool>>
        /\ "tool_name" \in DOMAIN check_request.resource.attributes
        /\ check_request.resource.attributes.tool_name = mapped_tool

\* C20: after create_check_request every input holds exactly the keys and
\* values it held when the call began
C20_InputsUnchanged ==
    check_request # NoResult =>
        \A n \in InputNames : objs[n] = before[n]

C20_Witness ==
    /\ check_request # NoResult
    /\ mapper = "claude_sdk"
    /\ objs.config.extract_tool_args
    /\ DOMAIN objs.tool_input # {}
    /\ DOMAIN objs.resource_attributes # {}
    /\ "tool_input" \in DOMAIN check_request.resource.attributes
    /\ \A n \in InputNames : objs[n] = before[n]

\* C21: building a request twice with the same tool and the same call inputs
\* gives equal bodies, whatever the mapper built in between
C21_SameInputsSameBody ==
    \A i \in 1..Len(bodies), j \in 1..Len(bodies) :
        (bodies[i].tool = bodies[j].tool /\ bodies[i].inputs = bodies[j].inputs)
            => bodies[i].body = bodies[j].body

C21_Witness ==
    /\ Len(bodies) = 3
    /\ bodies[1].tool = bodies[3].tool
    /\ bodies[1].inputs = bodies[3].inputs
    /\ bodies[2].inputs # bodies[1].inputs
    /\ bodies[2].body # bodies[1].body
    /\ bodies[1].body = bodies[3].body

\* the property keys of a principal (attributes is None when there are none)
PropertyKeys(attributes) ==
    IF attributes.is_none THEN {} ELSE DOMAIN attributes.dict

\* the first of the values that is given, or None
FirstGiven(passed, configured) == IF passed # None THEN passed ELSE configured

\* C22: the subject of every request of the permission callback has type
\* "user" and the id given to the factory, else the id of the configuration,
\* else "claude-agent"; a user_id / session_id property is there exactly when
\* the value is set, and the caller's subject properties are kept
C22_SubjectByPrecedence ==
    invocation # NoResult =>
        LET principal == invocation.request.principal
            user_id == FirstGiven(created_with.user_id,
                                  created_with.config.user_id)
            session_id == FirstGiven(created_with.session_id,
                                     created_with.config.session_id)
            keys == PropertyKeys(principal.attributes)
        IN  /\ principal.uri =
                  <<"user", IF user_id # None THEN user_id ELSE "claude-agent">>
            /\ ("user_id" \in keys) <=> (user_id # None)
            /\ "user_id" \in keys => principal.attributes.dict.user_id = user_id
            /\ ("session_id" \in keys) <=> (session_id # None)
            /\ "session_id" \in keys =>
                   principal.attributes.dict.session_id = session_id
            /\ \A k \in DOMAIN created_with.subject_properties :
                   /\ k \in keys
                   /\ principal.attributes.dict[k] =
                          created_with.subject_properties[k]

\* the configuration at the time the factory was called, overrides applied
PolicyAtCreation ==
    create_denied_permission_callback(
        created_with.config, created_with.user_id, created_with.session_id,
        created_with.subject_properties).effective_config

\* C29: every invocation uses the fail_mode, retry_attempts, user_id and
\* session_id the configuration had when the callback was created (overrides
\* applied): the request built, the attempts made and the decision returned
\* are those of that policy, whatever the caller's object holds now
C29_PolicyFixedAtCreation ==
    invocation # NoResult =>
        invocation = denied_permission_callback_call(
                         callback, PolicyAtCreation, invocation.tool_name,
                         invocation.check_result)

C29_Witness ==
    /\ invocation # NoResult
    /\ host_config.fail_mode # created_with.config.fail_mode
    /\ host_config.retry_attempts # created_with.config.retry_attempts
    /\ host_config.user_id # created_with.config.user_id
    /\ created_with.user_id = None
    /\ created_with.config.user_id = "alice"
    /\ invocation.check_result.none
    /\ invocation.result = PermissionResultAllow
    /\ invocation.attempts = created_with.config.retry_attempts + 1
    /\ invocation.request.principal.uri = <<"user", "alice">>

\* C23: every invocation ends in exactly one terminal state, allowed or
\* denied: from the first attempt on it sleeps at most retry_attempts times
\* and then is done, with a decision, whenever each attempt returns or fails
C23_TerminatesWithDecision ==
    /\ [](Len(SleepsDone) <= retry_attempts)
    /\ [](pc = "done" => result.behavior \in {"allow", "deny"})
    /\ (pc = "checking") ~> (pc = "done")

\* flow i obtained a response
FlowGotResponse(i) ==
    flows[i].check_result.returned /\ ~flows[i].check_result.none

\* C24: concurrent invocations that share one client are independent: a
\* flow can start and go on whatever the others wait for, and the calls it
\* makes and the result it returns follow from its own attempts alone
C24_FlowsIndependent ==
    \A i \in Flows :
        /\ flows[i].pc = "idle" =>
              \A req \in FlowRequests : ENABLED FlowInvoke(i, req)
        /\ flows[i].pc = "sleeping" => ENABLED FlowWake(i)
        /\ flows[i].calls <= flow_config.retry_attempts + 1
        /\ flows[i].pc = "done" =>
              /\ flows[i].calls =
                     flows[i].raises + (IF FlowGotResponse(i) THEN 1 ELSE 0)
              /\ ~FlowGotResponse(i) =>
                     flows[i].raises = flow_config.retry_attempts + 1
              /\ flows[i].result =
                     GateResult(flow_config.gate, flow_config.fail_mode,
                                flows[i].check_result)

C24_Witness ==
    /\ flow_config.retry_attempts = 2
    /\ flows[1].pc = "sleeping"
    /\ flows[1].attempt = 0
    /\ flows[2].pc = "done"
    /\ flows[2].raises = 3
    /\ flows[2].calls = 3

\* the name matches none of the patterns that stand apart from the delete,
\* share and update stems: no built-in, no execute, merge or lock stem
OnlyDeleteShareUpdate(name) ==
    /\ ~IsBuiltin(name)
    /\ ~HasStem(name, ExecuteStems \cup MergeStems \cup LockStems)

\* C25: a tool name that matches a delete stem and also a share / compound
\* stem or an update stem is classified delete, and a name whose only such
\* stem is unshare is never classified by the share stem
C25_DeleteBeforeShareUpdate ==
    (action_out # NotCalled /\ DecidedByName /\ OnlyDeleteShareUpdate(name_in)
     /\ HasStem(name_in, DeleteStems))
        => action_out = "delete"

\* C26: the client of a gate is closed exactly once, by the component that
\* constructed it: never twice, and once the host has stopped it was closed,
\* through the release of the gate when the gate constructed it
C26_ClosedExactlyOnce ==
    /\ CloseCalls(ops) <= 1
    /\ phase = "stopped" => CloseCalls(ops) = 1

\* flow i ended on service unavailability: every attempt raised
FlowUnavailable(i) == flows[i].pc = "done" /\ ~FlowGotResponse(i)

\* C27: two invocations of one gate that end on service unavailability
\* return the same result with the same reason text, whatever exceptions
\* the client raised in each
C27_ErrorDetailHidden ==
    \A i \in Flows, j \in Flows :
        (FlowUnavailable(i) /\ FlowUnavailable(j))
            => flows[i].result = flows[j].result

C27_Witness ==
    /\ FlowUnavailable(1)
    /\ FlowUnavailable(2)
    /\ flow_config.fail_mode = "closed"
    /\ flows[1].error = "httpx.HTTPStatusError"
    /\ flows[2].error = "ValueError"
    /\ flows[1].result = flows[2].result
    /\ flows[1].result.behavior = "deny"

\* C28: no invocation ends without contacting the service: client.check was
\* called at least once before the result, whatever retry_attempts holds
\* when the invocation runs, so fail_mode "open" never allows unchecked
C28_ContactedBeforeDecision ==
    pc = "done" => CallCount >= 1

\* the keyword arguments that carry the whole of flow i's request
FlowRequestSent(i) == check_call(flow_config.gate, flows[i].request, 0)

\* C30: within one invocation the request is built once, before the first
\* attempt, and the initial attempt and every retry send that request: the
\* same subject, action, resource and context each time
C30_SameRequestEveryAttempt ==
    \A i \in Flows :
        /\ flows[i].pc = "idle" => (flows[i].request = NoResult /\ flows[i].sent = <<>>)
        /\ flows[i].pc # "idle" =>
              /\ flows[i].request \in FlowRequests
              /\ Len(flows[i].sent) = flows[i].calls
              /\ \A k \in 1..Len(flows[i].sent) :
                    flows[i].sent[k] = FlowRequestSent(i)

C30_Witness ==
    /\ flows[1].pc = "done"
    /\ Len(flows[1].sent) = 3
    /\ flows[1].sent[3] = flows[1].sent[1]
    /\ flows[2].pc = "checking"
    /\ flows[2].request # flows[1].request
    /\ flows[2].sent # flows[1].sent

====
